---------------------------- MODULE Spec2Model ----------------------------
(***************************************************************************)
(* Model of the estimation engine of the SET CLI (Codigo/internal/         *)
(* estimator): the similarity scorer, the adaptive retriever, the dataset  *)
(* enhancer, the statistics summarizer, the estimation orchestrator        *)
(* (Estimator.Estimate) and the batch engine (BatchProcessor.ProcessBatch  *)
(* with its worker pool).                                                  *)
(*                                                                         *)
(* Conventions.                                                            *)
(*  - A Go string is a sequence of one-character TLA+ strings, so that     *)
(*    lower-casing, filtering and splitting are computed, not assumed.     *)
(*  - A float64 is an exact rational [n, d] in lowest terms (d > 0).       *)
(*  - A nil pointer / nil error is the value NULL.                         *)
(***************************************************************************)
EXTENDS Integers, Sequences, FiniteSets, Bags, TLC

NULL == [nil |-> TRUE]

(***************************************************************************)
(* Bounds of the model.                                                    *)
(***************************************************************************)
MaxTasks == 3
MaxWorkersArg == 2
MaxStorageChanges == 1
MaxEnvTasks == 2

(***************************************************************************)
(* Exact rationals standing for float64 values.                            *)
(***************************************************************************)
RECURSIVE GCD(_, _)
GCD(a, b) == IF b = 0 THEN a ELSE GCD(b, a % b)

Abs(x) == IF x < 0 THEN -x ELSE x

Rat(n, d) ==
    LET g == GCD(Abs(n), d)
    IN  IF n = 0 THEN [n |-> 0, d |-> 1] ELSE [n |-> n \div g, d |-> d \div g]

RInt(k) == [n |-> k, d |-> 1]
RAdd(a, b) == Rat(a.n * b.d + b.n * a.d, a.d * b.d)
RMul(a, b) == Rat(a.n * b.n, a.d * b.d)
RDiv(a, b) == Rat(a.n * b.d, a.d * b.n)
RLt(a, b) == a.n * b.d < b.n * a.d
RLeq(a, b) == a.n * b.d <= b.n * a.d
RGeq(a, b) == RLeq(b, a)
RGt(a, b) == RLt(b, a)
RFloor(a) == a.n \div a.d

(***************************************************************************)
(* Generic sequence helpers.                                               *)
(***************************************************************************)
Range(s) == {s[i] : i \in 1..Len(s)}

RECURSIVE SumSeq(_)
SumSeq(s) == IF s = <<>> THEN 0 ELSE Head(s) + SumSeq(Tail(s))

RECURSIVE RSumSeq(_)
RSumSeq(s) == IF s = <<>> THEN RInt(0) ELSE RAdd(Head(s), RSumSeq(Tail(s)))

\* s with its elements at positions i and j exchanged
Swap(s, i, j) == [s EXCEPT ![i] = s[j], ![j] = s[i]]

(***************************************************************************)
(* Strings: strings.ToLower, strings.TrimSpace, strings.Fields and the     *)
(* unicode classes, over the alphabet the model's data uses.               *)
(***************************************************************************)
UpperChars == <<"A", "B", "C", "D", "E", "F", "G", "H", "I", "J", "K", "L", "M",
                "N", "O", "P", "Q", "R", "S", "T", "U", "V", "W", "X", "Y", "Z">>
LowerChars == <<"a", "b", "c", "d", "e", "f", "g", "h", "i", "j", "k", "l", "m",
                "n", "o", "p", "q", "r", "s", "t", "u", "v", "w", "x", "y", "z">>
DigitChars == <<"0", "1", "2", "3", "4", "5", "6", "7", "8", "9">>

Uppers == Range(UpperChars)
Letters == Range(UpperChars) \cup Range(LowerChars)
Digits == Range(DigitChars)

IsLetter(c) == c \in Letters
IsNumber(c) == c \in Digits
IsSpace(c) == c \in {" ", "\n"}

LowerChar(c) ==
    IF c \in Uppers
    THEN LowerChars[CHOOSE i \in 1..Len(UpperChars) : UpperChars[i] = c]
    ELSE c

RECURSIVE ToLower(_)
ToLower(s) == IF s = <<>> THEN <<>> ELSE <<LowerChar(Head(s))>> \o ToLower(Tail(s))

RECURSIVE TrimLeft(_)
TrimLeft(s) == IF s # <<>> /\ IsSpace(Head(s)) THEN TrimLeft(Tail(s)) ELSE s

RECURSIVE TrimRight(_)
TrimRight(s) ==
    IF s # <<>> /\ IsSpace(s[Len(s)]) THEN TrimRight(SubSeq(s, 1, Len(s) - 1)) ELSE s

TrimSpace(s) == TrimRight(TrimLeft(s))

\* strings.Fields: the maximal runs of non-space characters, in order
RECURSIVE FieldsFrom(_, _, _)
FieldsFrom(s, cur, acc) ==
    IF s = <<>>
    THEN IF cur = <<>> THEN acc ELSE Append(acc, cur)
    ELSE IF IsSpace(Head(s))
         THEN FieldsFrom(Tail(s), <<>>, IF cur = <<>> THEN acc ELSE Append(acc, cur))
         ELSE FieldsFrom(Tail(s), Append(cur, Head(s)), acc)

Fields(s) == FieldsFrom(s, <<>>, <<>>)


(***************************************************************************)
(* Values of a map[string]interface{}: a string or a float64 (what         *)
(* encoding/json decodes a custom field to).  Keys are only ever looked up *)
(* exactly, so they are plain TLA+ strings.                                *)
(***************************************************************************)
StrVal(s) == [type |-> "string", s |-> s]
NumVal(k) == [type |-> "float64", f |-> RInt(k)]

DigitOf(c) == (CHOOSE i \in 1..Len(DigitChars) : DigitChars[i] = c) - 1

RECURSIVE DigitsOf(_)
DigitsOf(k) ==
    IF k < 10 THEN <<DigitChars[k + 1]>>
    ELSE Append(DigitsOf(k \div 10), DigitChars[(k % 10) + 1])

\* fmt.Sprintf("%v", v) of a float64 holding a whole number
FormatFloat(f) == IF f.n < 0 THEN <<"-">> \o DigitsOf(-f.n) ELSE DigitsOf(f.n)

\* the longest prefix of s made of digits
RECURSIVE DigitPrefix(_)
DigitPrefix(s) ==
    IF s # <<>> /\ IsNumber(Head(s)) THEN <<Head(s)>> \o DigitPrefix(Tail(s)) ELSE <<>>

RECURSIVE DigitsValue(_, _)
DigitsValue(ds, acc) ==
    IF ds = <<>> THEN acc ELSE DigitsValue(Tail(ds), acc * 10 + DigitOf(Head(ds)))

\* fmt.Sscanf(v, "%f", &f): leading spaces are skipped, then an unsigned
\* whole number is read; NULL when no number starts the string (err # nil)
ScanFloat(s) ==
    LET ds == DigitPrefix(TrimLeft(s))
    IN  IF ds = <<>> THEN NULL ELSE RInt(DigitsValue(ds, 0))

RECURSIVE extractFloat(_, _)
extractFloat(fields, keys) ==
    IF keys = <<>> THEN RInt(0)
    ELSE LET key == Head(keys)
             rest == extractFloat(fields, Tail(keys))
         IN  IF key \in DOMAIN fields
             THEN LET val == fields[key]
                  IN  IF val.type = "float64" THEN val.f
                      ELSE IF val.type = "string" /\ ScanFloat(val.s) # NULL
                           THEN ScanFloat(val.s)
                           ELSE rest
             ELSE rest

RECURSIVE extractString(_, _)
extractString(fields, keys) ==
    IF keys = <<>> THEN <<>>
    ELSE LET key == Head(keys)
         IN  IF key \in DOMAIN fields /\ fields[key].type = "string"
             THEN fields[key].s
             ELSE extractString(fields, Tail(keys))

toString(v) ==
    IF v = NULL THEN <<>>
    ELSE IF v.type = "string" THEN v.s
         ELSE TrimSpace(ToLower(FormatFloat(v.f)))

compareValues(v1, v2) ==
    ToLower(TrimSpace(toString(v1))) = ToLower(TrimSpace(toString(v2)))

(***************************************************************************)
(* Similarity scorer (similarity.go).                                      *)
(***************************************************************************)
normalizeText(text) ==
    SelectSeq(TrimSpace(ToLower(text)),
              LAMBDA c : IsLetter(c) \/ IsNumber(c) \/ IsSpace(c))

\* the unique words longer than two characters; Go returns them in map
\* order, and every caller uses them as a set
extractWords(text) ==
    {w \in {ToLower(TrimSpace(f)) : f \in Range(Fields(text))} : Len(w) > 2}

\* a plausible slip: the intersection is taken off the union twice
jaccardSimilarity_SubtractsTwice(set1, set2) ==
    IF set1 = {} /\ set2 = {} THEN RInt(1)
    ELSE LET map1 == {ToLower(x) : x \in set1}
             map2 == {ToLower(x) : x \in set2}
             intersection == Cardinality(map1 \cap map2)
             union == Cardinality(map1) + Cardinality(map2) - 2 * intersection
         IN  IF union = 0 THEN RInt(0) ELSE Rat(intersection, union)

\* set1, set2: the sets of items of the two slices
jaccardSimilarity(set1, set2) ==
    IF set1 = {} /\ set2 = {} THEN RInt(1)
    ELSE LET map1 == {ToLower(x) : x \in set1}
             map2 == {ToLower(x) : x \in set2}
             intersection == Cardinality(map1 \cap map2)
             union == Cardinality(map1) + Cardinality(map2) - intersection
         IN  IF union = 0 THEN RInt(0) ELSE Rat(intersection, union)

calculateTextSimilarity(text1, text2) ==
    LET t1 == normalizeText(text1)
        t2 == normalizeText(text2)
    IN  IF t1 = <<>> \/ t2 = <<>> THEN RInt(0)
        ELSE jaccardSimilarity(extractWords(t1), extractWords(t2))

\* a plausible slip: the check for two empty label lists is missing
calculateLabelSimilarity_EmptyIsNoMatch(labels1, labels2) ==
    IF Len(labels1) = 0 \/ Len(labels2) = 0 THEN RInt(0)
    ELSE jaccardSimilarity(Range(labels1), Range(labels2))

calculateLabelSimilarity(labels1, labels2) ==
    IF Len(labels1) = 0 /\ Len(labels2) = 0 THEN RInt(1)
    ELSE IF Len(labels1) = 0 \/ Len(labels2) = 0 THEN RInt(0)
         ELSE jaccardSimilarity(Range(labels1), Range(labels2))

calculateContextSimilarity(context1, context2) ==
    LET k1 == DOMAIN context1
        k2 == DOMAIN context2
        matches == Cardinality({k \in k1 \cap k2 : compareValues(context1[k], context2[k])})
        total == Cardinality(k1) + Cardinality(k2 \ k1)
    IN  IF k1 = {} /\ k2 = {} THEN RInt(1)
        ELSE IF k1 = {} \/ k2 = {} THEN RInt(0)
             ELSE IF total = 0 THEN RInt(0) ELSE Rat(matches, total)

extractLabels(issue) == [i \in 1..Len(issue.Labels) |-> issue.Labels[i].Name]

\* the weights 0.4, 0.3, 0.2, 0.1 of the four signals
TitleWeight == Rat(4, 10)
DescWeight == Rat(3, 10)
LabelWeight == Rat(2, 10)
ContextWeight == Rat(1, 10)

CalculateSimilarity(task, historical) ==
    IF historical = NULL \/ historical.Issue = NULL THEN RInt(0)
    ELSE LET issue == historical.Issue
             hasDesc == task.Description # <<>> /\ issue.Body # <<>>
             hasCtx == DOMAIN task.Context # {} /\ DOMAIN issue.CustomFields # {}
             titleScore == calculateTextSimilarity(task.Title, issue.Title)
             labelScore == calculateLabelSimilarity(task.Labels, extractLabels(issue))
             s1 == RMul(titleScore, TitleWeight)
             w1 == TitleWeight
             s2 == IF hasDesc
                   THEN RAdd(s1, RMul(calculateTextSimilarity(task.Description, issue.Body),
                                      DescWeight))
                   ELSE s1
             w2 == IF hasDesc THEN RAdd(w1, DescWeight) ELSE w1
             s3 == RAdd(s2, RMul(labelScore, LabelWeight))
             w3 == RAdd(w2, LabelWeight)
             s4 == IF hasCtx
                   THEN RAdd(s3, RMul(calculateContextSimilarity(task.Context,
                                                                 issue.CustomFields),
                                      ContextWeight))
                   ELSE s3
             w4 == IF hasCtx THEN RAdd(w3, ContextWeight) ELSE w3
         IN  IF RGt(w4, RInt(0)) THEN RDiv(s4, w4) ELSE RInt(0)

\* the runtime panic of a nil pointer dereference
NilDereference == [panic |-> "invalid memory address or nil pointer dereference"]

\* identifyMatches reads historical.Issue.Title first, with no nil check: it
\* panics on an entry whose Issue is nil
identifyMatchesPanics(historical) == historical.Issue = NULL

\* identifyMatches on an entry with an Issue (the corpus built by
\* loadHistoricalTasks never holds a nil Issue)
identifyMatches(task, historical) ==
    LET issue == historical.Issue
        t == IF RGt(calculateTextSimilarity(task.Title, issue.Title), Rat(5, 10))
             THEN <<"title">> ELSE <<>>
        d == IF task.Description # <<>> /\ issue.Body # <<>>
                /\ RGt(calculateTextSimilarity(task.Description, issue.Body), Rat(3, 10))
             THEN <<"description">> ELSE <<>>
        l == IF RGt(calculateLabelSimilarity(task.Labels, extractLabels(issue)), Rat(3, 10))
             THEN <<"labels">> ELSE <<>>
        c == IF DOMAIN task.Context # {} /\ DOMAIN issue.CustomFields # {}
                /\ RGt(calculateContextSimilarity(task.Context, issue.CustomFields),
                       Rat(3, 10))
             THEN <<"custom_fields">> ELSE <<>>
    IN  t \o d \o l \o c

\* the exchange sort of sortBySimilarity: for i, for j > i, swap when
\* matches[j] scores strictly higher than matches[i]
RECURSIVE SortInner(_, _, _)
SortInner(m, i, j) ==
    IF j > Len(m) THEN m
    ELSE SortInner(IF RGt(m[j].Similarity, m[i].Similarity) THEN Swap(m, i, j) ELSE m,
                   i, j + 1)

RECURSIVE SortOuter(_, _)
SortOuter(m, i) == IF i > Len(m) THEN m ELSE SortOuter(SortInner(m, i, i + 1), i + 1)

sortBySimilarity(matches) == SortOuter(matches, 1)


(***************************************************************************)
(* Estimation configuration (DefaultEstimationConfig).                     *)
(***************************************************************************)
DefaultMaxSimilarTasks == 15
DefaultMinSimilarTasks == 10
DefaultStratifiedSamplesPerSize == 2

DefaultEstimationConfig ==
    [MaxSimilarTasks |-> DefaultMaxSimilarTasks,
     MinSimilarTasks |-> DefaultMinSimilarTasks,
     MinSimilarityThreshold |-> Rat(3, 10),
     StratifiedSamplesPerSize |-> DefaultStratifiedSamplesPerSize]

(***************************************************************************)
(* Adaptive retriever (FindSimilarTasksAdaptive).                          *)
(***************************************************************************)
thresholds == <<Rat(50, 100), Rat(40, 100), Rat(30, 100), Rat(20, 100), Rat(15, 100)>>

minDesiredMatches == 3

\* a plausible slip: the cut to the maximum is missing
Truncate_KeepsAll(s, k) == s

Truncate(s, k) == IF Len(s) > k THEN SubSeq(s, 1, k) ELSE s

\* a plausible slip: the comparison that updates the maximum is inverted
RECURSIVE RMaxSeq_Inverted(_, _)
RMaxSeq_Inverted(s, acc) ==
    IF s = <<>> THEN acc
    ELSE RMaxSeq_Inverted(Tail(s), IF RLt(Head(s), acc) THEN Head(s) ELSE acc)

RECURSIVE RMaxSeq(_, _)
RMaxSeq(s, acc) ==
    IF s = <<>> THEN acc
    ELSE RMaxSeq(Tail(s), IF RGt(Head(s), acc) THEN Head(s) ELSE acc)

\* the threshold loop from index k on: [best, used, tried]; used is NULL
\* when the loop ends without selecting a threshold
RECURSIVE TryThresholds(_, _, _)
TryThresholds(scoredTasks, maxMatches, k) ==
    LET threshold == thresholds[k]
        matches == sortBySimilarity(
                       SelectSeq(scoredTasks, LAMBDA m : RGeq(m.Similarity, threshold)))
    IN  IF Len(matches) >= minDesiredMatches
        THEN [best |-> Truncate(matches, maxMatches), used |-> threshold, tried |-> k]
        ELSE IF threshold = thresholds[Len(thresholds)] /\ Len(matches) > 0
             THEN [best |-> Truncate(matches, maxMatches), used |-> threshold, tried |-> k]
             ELSE IF k = Len(thresholds)
                  THEN [best |-> <<>>, used |-> NULL, tried |-> k]
                  ELSE TryThresholds(scoredTasks, maxMatches, k + 1)

\* the scoring loop: one scoredTask appended per corpus entry
RECURSIVE ScoreTasks(_, _, _)
ScoreTasks(task, historical, scoredTasks) ==
    IF historical = <<>> THEN scoredTasks
    ELSE ScoreTasks(task, Tail(historical),
                    Append(scoredTasks,
                           [Task |-> Head(historical),
                            Similarity |-> CalculateSimilarity(task, Head(historical)),
                            Matches |-> identifyMatches(task, Head(historical))]))

\* returns [matches, context]; a panic of the scoring loop leaves the
\* function with no return value
FindSimilarTasksAdaptive(task, historical, config) ==
    IF \E i \in 1..Len(historical) : identifyMatchesPanics(historical[i])
    THEN NilDereference
    ELSE
    LET scoredTasks == ScoreTasks(task, historical, <<>>)
        maxSimilarity == RMaxSeq([i \in 1..Len(historical) |-> scoredTasks[i].Similarity],
                                 RInt(0))
        r == TryThresholds(scoredTasks, config.MaxSimilarTasks, 1)
        thresholdUsed == IF Len(r.best) = 0 THEN config.MinSimilarityThreshold
                         ELSE r.used
    IN  [matches |-> r.best,
         context |-> [ThresholdUsed |-> thresholdUsed,
                      ThresholdsTriedCount |-> r.tried,
                      TotalTasksScanned |-> Len(historical),
                      MatchesFound |-> Len(r.best),
                      HighestSimilarity |-> maxSimilarity]]

(***************************************************************************)
(* Dataset enhancer (selectEnhancedDataset).  A *HistoricalTask is         *)
(* identified by its ptr field, the allocation made for it at load time.   *)
(***************************************************************************)
sizes == << <<"X", "S">>, <<"S">>, <<"M">>, <<"L">>, <<"X", "L">> >>

percentiles == <<Rat(10, 100), Rat(25, 100), Rat(50, 100), Rat(75, 100), Rat(90, 100)>>

\* a plausible slip: one fixed tag for every percentile
PercentileTag_Fixed(k) == "percentile_sample"

\* "percentile_%.0f" of p*100
PercentileTag(k) == <<"percentile_10", "percentile_25", "percentile_50",
                      "percentile_75", "percentile_90">>[k]

\* a plausible slip: the index is taken on the length, not on the last index
PercentileIndex_OfLength(n, p) == RFloor(RMul(RInt(n), p))

\* int(float64(n-1) * p)
PercentileIndex(n, p) == RFloor(RMul(RInt(n - 1), p))

\* the exchange sort used for hours, on a sequence of [k, v] pairs: for i,
\* for j > i, swap when s[i].k > s[j].k
RECURSIVE AscInner(_, _, _)
AscInner(s, i, j) ==
    IF j > Len(s) THEN s
    ELSE AscInner(IF RGt(s[i].k, s[j].k) THEN Swap(s, i, j) ELSE s, i, j + 1)

RECURSIVE AscOuter(_, _)
AscOuter(s, i) == IF i > Len(s) THEN s ELSE AscOuter(AscInner(s, i, i + 1), i + 1)

\* the values of the pairs s, sorted by that exchange sort on their keys
Unkeyed(s) == LET sorted == AscOuter(s, 1) IN [i \in 1..Len(s) |-> sorted[i].v]

\* sortedHours of calculateDatasetStatistics
SortHours(hours) ==
    Unkeyed([i \in 1..Len(hours) |-> [k |-> hours[i], v |-> hours[i]]])

\* tasksWithHours of selectEnhancedDataset once sorted by ActualHours
SortByActualHours(tasks) ==
    Unkeyed([i \in 1..Len(tasks) |-> [k |-> tasks[i].ActualHours, v |-> tasks[i]]])

\* Step 1: the retriever's matches, at most MaxSimilarTasks of them
AddSimilar(similarTasks, config) == Truncate(similarTasks, config.MaxSimilarTasks)

Selected(enhanced) == {enhanced[i].Task.ptr : i \in 1..Len(enhanced)}

\* Step 2, from size index k on
RECURSIVE AddStratified(_, _, _, _)
AddStratified(enhanced, sizeBuckets, config, k) ==
    IF k > Len(sizes) \/ Len(enhanced) >= config.MinSimilarTasks THEN enhanced
    ELSE LET bucket == sizeBuckets[k]
             samplesNeeded == IF config.StratifiedSamplesPerSize > Len(bucket)
                              THEN Len(bucket)
                              ELSE config.StratifiedSamplesPerSize
             room == config.MinSimilarTasks - Len(enhanced)
             taken == IF samplesNeeded < room THEN samplesNeeded ELSE room
             added == [i \in 1..taken |->
                          [Task |-> bucket[i], Similarity |-> RInt(0),
                           Matches |-> <<"stratified_sample">>]]
         IN  AddStratified(enhanced \o added, sizeBuckets, config, k + 1)

\* a plausible slip: the entry at a percentile is added without looking it
\* up among the selected ones
RECURSIVE AddPercentiles_NoIdentityCheck(_, _, _, _)
AddPercentiles_NoIdentityCheck(enhanced, tasksWithHours, config, k) ==
    IF k > Len(percentiles) \/ Len(enhanced) >= config.MinSimilarTasks THEN enhanced
    ELSE LET idx == PercentileIndex(Len(tasksWithHours), percentiles[k])
             hist == tasksWithHours[idx + 1]
         IN  AddPercentiles_NoIdentityCheck(
                 Append(enhanced, [Task |-> hist, Similarity |-> RInt(0),
                                   Matches |-> <<PercentileTag(k)>>]),
                 tasksWithHours, config, k + 1)

\* Step 3, from percentile index k on
RECURSIVE AddPercentiles(_, _, _, _)
AddPercentiles(enhanced, tasksWithHours, config, k) ==
    IF k > Len(percentiles) \/ Len(enhanced) >= config.MinSimilarTasks THEN enhanced
    ELSE LET idx == PercentileIndex(Len(tasksWithHours), percentiles[k])
             hist == tasksWithHours[idx + 1]
         IN  AddPercentiles(
                 IF hist.ptr \notin Selected(enhanced)
                 THEN Append(enhanced, [Task |-> hist, Similarity |-> RInt(0),
                                        Matches |-> <<PercentileTag(k)>>])
                 ELSE enhanced,
                 tasksWithHours, config, k + 1)

selectEnhancedDataset(similarTasks, historical, config) ==
    LET step1 == AddSimilar(similarTasks, config)
        sizeBuckets == [k \in 1..Len(sizes) |->
                           SelectSeq(historical,
                                     LAMBDA h : /\ h.ptr \notin Selected(step1)
                                                /\ h.EstimatedSize = sizes[k])]
        step2 == IF Len(step1) < config.MinSimilarTasks
                 THEN AddStratified(step1, sizeBuckets, config, 1)
                 ELSE step1
        tasksWithHours == SortByActualHours(
                              SelectSeq(historical,
                                        LAMBDA h : /\ h.ptr \notin Selected(step2)
                                                   /\ RGt(h.ActualHours, RInt(0))))
    IN  IF Len(step2) < config.MinSimilarTasks /\ Len(tasksWithHours) > 0
        THEN AddPercentiles(step2, tasksWithHours, config, 1)
        ELSE step2


(***************************************************************************)
(* Statistics summarizer (calculateDatasetStatistics).                     *)
(***************************************************************************)
\* the number of positions of s holding x
Count(s, x) == Cardinality({i \in 1..Len(s) : s[i] = x})

\* a Go map built by m[k]++ over the keys of s
CountMap(s) == [x \in Range(s) |-> Count(s, x)]

RECURSIVE RMinSeq(_, _)
RMinSeq(s, acc) ==
    IF s = <<>> THEN acc
    ELSE RMinSeq(Tail(s), IF RLt(Head(s), acc) THEN Head(s) ELSE acc)

\* the (label, hist) pairs of the corpus in the order the loops visit them
RECURSIVE LabelVisits(_)
LabelVisits(historical) ==
    IF historical = <<>> THEN <<>>
    ELSE LET hist == Head(historical)
             here == IF hist.Issue = NULL THEN <<>>
                     ELSE [i \in 1..Len(hist.Issue.Labels) |->
                              [label |-> hist.Issue.Labels[i].Name, hist |-> hist]]
         IN  here \o LabelVisits(Tail(historical))

calculateDatasetStatistics(historical) ==
    IF Len(historical) = 0 THEN NULL
    ELSE
    LET withHours == SelectSeq(historical, LAMBDA h : RGt(h.ActualHours, RInt(0)))
        hours == [i \in 1..Len(withHours) |-> withHours[i].ActualHours]
        hoursCount == Len(hours)
        sortedHours == SortHours(hours)
        mid == Len(sortedHours) \div 2
        withSize == SelectSeq(historical, LAMBDA h : h.EstimatedSize # <<>>)
        visits == LabelVisits(historical)
        labelsSeen == {visits[i].label : i \in 1..Len(visits)}
        categoryHours(c) ==
            LET vs == SelectSeq(visits, LAMBDA v : /\ v.label = c
                                                   /\ RGt(v.hist.ActualHours, RInt(0)))
            IN  [i \in 1..Len(vs) |-> vs[i].hist.ActualHours]
        categoryTitles(c) ==
            LET vs == SelectSeq(visits, LAMBDA v : v.label = c)
            IN  [i \in 1..(IF Len(vs) < 3 THEN Len(vs) ELSE 3) |-> vs[i].hist.Issue.Title]
    IN  [TotalTasks |-> Len(historical),
         ClosedTasks |-> Len(SelectSeq(historical,
                             LAMBDA h : h.Issue # NULL /\ h.Issue.State = "closed")),
         AvgHours |-> IF hoursCount > 0 THEN RDiv(RSumSeq(hours), RInt(hoursCount))
                      ELSE RInt(0),
         MedianHours |-> IF hoursCount = 0 THEN RInt(0)
                         ELSE IF Len(sortedHours) % 2 = 0
                              THEN RDiv(RAdd(sortedHours[mid], sortedHours[mid + 1]), RInt(2))
                              ELSE sortedHours[mid + 1],
         TasksBySize |-> CountMap([i \in 1..Len(withSize) |-> withSize[i].EstimatedSize]),
         TasksByCategory |-> CountMap([i \in 1..Len(visits) |-> visits[i].label]),
         CategoryBreakdown |->
             [c \in {l \in labelsSeen : Len(categoryHours(l)) > 0} |->
                 [Count |-> Len(categoryHours(c)),
                  AvgHours |-> RDiv(RSumSeq(categoryHours(c)), RInt(Len(categoryHours(c)))),
                  MinHours |-> RMinSeq(categoryHours(c), categoryHours(c)[1]),
                  MaxHours |-> RMaxSeq(categoryHours(c), categoryHours(c)[1]),
                  TaskTitles |-> categoryTitles(c)]],
         PercentileHours |->
             IF hoursCount = 0 THEN <<>>
             ELSE [k \in 1..Len(percentiles) |->
                      sortedHours[PercentileIndex(Len(sortedHours), percentiles[k]) + 1]]]

(***************************************************************************)
(* Corpus loading (Estimator.loadHistoricalTasks over Store.GetAllIssues). *)
(* db is the state of the store: [readable, issues].                       *)
(***************************************************************************)
\* Store.GetAllIssues: [issues, err]
GetAllIssues(db) ==
    IF db.readable THEN [issues |-> db.issues, err |-> NULL]
    ELSE [issues |-> <<>>, err |-> [error |-> "issues bucket not found"]]

HoursKeys == <<"Worker Hours", "Hours", "Actual Hours">>
PointsKeys == <<"Story Points", "Points">>
SizeKeys == <<"Size", "Complexity">>

\* the HistoricalTask made for issues[i]
MakeHistorical(issues, i) ==
    LET issue == issues[i]
        has == DOMAIN issue.CustomFields # {}
    IN  [ptr |-> i,
         Issue |-> issue,
         ActualHours |-> IF has THEN extractFloat(issue.CustomFields, HoursKeys)
                         ELSE RInt(0),
         StoryPoints |-> IF has THEN extractFloat(issue.CustomFields, PointsKeys)
                         ELSE RInt(0),
         EstimatedSize |-> IF has THEN extractString(issue.CustomFields, SizeKeys)
                           ELSE <<>>]

\* storage: NULL (not configured) or the *storage.Store; returns [historical, err]
loadHistoricalTasks(storage, db) ==
    IF storage = NULL
    THEN [historical |-> <<>>, err |-> [error |-> "storage not configured"]]
    ELSE LET got == GetAllIssues(db)
             all == [i \in 1..Len(got.issues) |-> MakeHistorical(got.issues, i)]
         IN  IF got.err # NULL THEN [historical |-> <<>>, err |-> got.err]
             ELSE [historical |->
                       SelectSeq(all, LAMBDA h :
                           /\ h.Issue.State = "closed"
                           /\ \/ RGt(h.ActualHours, RInt(0))
                              \/ RGt(h.StoryPoints, RInt(0))
                              \/ h.EstimatedSize # <<>>),
                   err |-> NULL]

(***************************************************************************)
(* Batch statistics (BatchProcessor.calculateStatistics and its helpers).  *)
(***************************************************************************)
\* calculateMedian returns the mean of the values ("not sorting")
calculateMedian(values) ==
    IF Len(values) = 0 THEN RInt(0) ELSE RDiv(RSumSeq(values), RInt(Len(values)))

findMin(values) == IF Len(values) = 0 THEN RInt(0) ELSE RMinSeq(Tail(values), values[1])

findMax(values) == IF Len(values) = 0 THEN RInt(0) ELSE RMaxSeq(Tail(values), values[1])

\* the results the loop of calculateStatistics does not skip
Counted(results) ==
    SelectSeq(results, LAMBDA r : ~(r.Error # NULL \/ r.Result = NULL
                                      \/ r.Result.Estimation = NULL))

\* the (label, hours) pairs the category loop visits
RECURSIVE CategoryVisits(_)
CategoryVisits(counted) ==
    IF counted = <<>> THEN <<>>
    ELSE LET r == Head(counted)
         IN  [i \in 1..Len(r.Task.Labels) |->
                 [label |-> r.Task.Labels[i],
                  hours |-> r.Result.Estimation.EstimatedHours]]
             \o CategoryVisits(Tail(counted))

HoursOf(visits, key) ==
    LET vs == SelectSeq(visits, LAMBDA v : v.label = key)
    IN  RSumSeq([i \in 1..Len(vs) |-> vs[i].hours])

HighConfidence == Rat(70, 100)
MediumConfidence == Rat(50, 100)

\* a plausible slip: the average taken over every result, failed ones included
AverageOf_AllResults(total, hours, results) == RDiv(total, RInt(Len(results)))

\* stats.AverageHours = stats.TotalEstimatedHours / float64(len(hours))
AverageOf(total, hours, results) == RDiv(total, RInt(Len(hours)))

calculateStatistics(results) ==
    LET counted == Counted(results)
        est(i) == counted[i].Result.Estimation
        hours == [i \in 1..Len(counted) |-> est(i).EstimatedHours]
        conf == [i \in 1..Len(counted) |-> est(i).ConfidenceScore]
        bySize == [i \in 1..Len(counted) |->
                      [label |-> est(i).EstimatedSize, hours |-> est(i).EstimatedHours]]
        byCategory == CategoryVisits(counted)
        total == RSumSeq(hours)
        confidenceCount == Len(conf)
    IN  [TotalEstimatedHours |-> total,
         AverageHours |-> IF Len(hours) > 0 THEN AverageOf(total, hours, results)
                          ELSE RInt(0),
         MedianHours |-> IF Len(hours) > 0 THEN calculateMedian(hours) ELSE RInt(0),
         MinHours |-> IF Len(hours) > 0 THEN findMin(hours) ELSE RInt(0),
         MaxHours |-> IF Len(hours) > 0 THEN findMax(hours) ELSE RInt(0),
         AverageConfidence |-> IF confidenceCount > 0
                               THEN RDiv(RSumSeq(conf), RInt(confidenceCount))
                               ELSE RInt(0),
         SizeDistribution |-> CountMap([i \in 1..Len(bySize) |-> bySize[i].label]),
         SizeHours |-> [k \in {bySize[i].label : i \in 1..Len(bySize)} |->
                           HoursOf(bySize, k)],
         CategoryDistribution |->
             CountMap([i \in 1..Len(byCategory) |-> byCategory[i].label]),
         CategoryHours |-> [k \in {byCategory[i].label : i \in 1..Len(byCategory)} |->
                               HoursOf(byCategory, k)],
         HighConfidenceTasks |->
             Len(SelectSeq(conf, LAMBDA c : RGeq(c, HighConfidence))),
         MediumConfidenceTasks |->
             Len(SelectSeq(conf, LAMBDA c : ~RGeq(c, HighConfidence)
                                            /\ RGeq(c, MediumConfidence))),
         LowConfidenceTasks |->
             Len(SelectSeq(conf, LAMBDA c : ~RGeq(c, HighConfidence)
                                            /\ ~RGeq(c, MediumConfidence)))]


(***************************************************************************)
(* Data of the model: the batch requests, the provider's possible          *)
(* responses and the contents the store can have.                          *)
(***************************************************************************)
NoFields == [k \in {} |-> NULL]

TaskKinds ==
    << [Title |-> <<"A", "d", "d", " ", "l", "o", "g", "i", "n">>,
        Description |-> <<>>,
        Labels |-> << <<"f", "e", "a", "t">> >>,
        Context |-> NoFields],
       [Title |-> <<"F", "i", "x", " ", "l", "o", "g", "i", "n", " ", "b", "u", "g">>,
        Description |-> <<"c", "r", "a", "s", "h">>,
        Labels |-> << <<"b", "u", "g">>, <<"f", "e", "a", "t">> >>,
        Context |-> [k \in {"priority"} |-> <<"h", "i", "g", "h">>]],
       [Title |-> <<"B", "i", "g", " ", "j", "o", "b">>,
        Description |-> <<>>,
        Labels |-> <<>>,
        Context |-> NoFields] >>

\* the BatchTask at position i of a request; ID i stands for its ID string
BatchTaskAt(i) ==
    LET kind == TaskKinds[((i - 1) % Len(TaskKinds)) + 1]
    IN  [ID |-> i, Title |-> kind.Title, Description |-> kind.Description,
         Labels |-> kind.Labels, Context |-> kind.Context]

Responses ==
    { [EstimatedHours |-> RInt(2), EstimatedSize |-> <<"S">>, StoryPoints |-> RInt(1),
       ConfidenceScore |-> Rat(45, 100), Reasoning |-> "small"],
      [EstimatedHours |-> RInt(16), EstimatedSize |-> <<"L">>, StoryPoints |-> RInt(8),
       ConfidenceScore |-> Rat(75, 100), Reasoning |-> "large"] }

IssueLogin ==
    [Title |-> <<"A", "d", "d", " ", "l", "o", "g", "i", "n", " ", "p", "a", "g", "e">>,
     Body |-> <<>>,
     Labels |-> << [Name |-> <<"f", "e", "a", "t">>] >>,
     State |-> "closed",
     CustomFields |-> [k \in {"Hours", "Size"} |->
                          IF k = "Hours" THEN NumVal(6) ELSE StrVal(<<"M">>)]]

IssueCrash ==
    [Title |-> <<"F", "i", "x", " ", "c", "r", "a", "s", "h">>,
     Body |-> <<"c", "r", "a", "s", "h", " ", "o", "n", " ", "l", "o", "g", "i", "n">>,
     Labels |-> << [Name |-> <<"B", "u", "g">>] >>,
     State |-> "closed",
     CustomFields |-> [k \in {"Worker Hours", "priority"} |->
                          IF k = "Worker Hours" THEN StrVal(<<"3", "h">>)
                          ELSE StrVal(<<"H", "i", "g", "h">>)]]

IssueOpen == [IssueLogin EXCEPT !.State = "open"]

IssueNoData == [IssueCrash EXCEPT !.CustomFields = NoFields]

IssuePoints ==
    [Title |-> <<"L", "o", "g", "i", "n", " ", "b", "u", "g", " ", "f", "i", "x">>,
     Body |-> <<>>,
     Labels |-> << [Name |-> <<"b", "u", "g">>], [Name |-> <<"f", "e", "a", "t">>] >>,
     State |-> "closed",
     CustomFields |-> [k \in {"Story Points"} |-> NumVal(5)]]

\* the states of the store: its issues bucket missing, or holding a corpus
DbStates ==
    { [readable |-> FALSE, issues |-> <<>>],
      [readable |-> TRUE, issues |-> <<IssueLogin, IssueOpen, IssueCrash, IssueNoData>>],
      [readable |-> TRUE, issues |-> <<IssuePoints, IssueLogin>>] }


(***************************************************************************)
(* State of a batch run.                                                   *)
(***************************************************************************)
VARIABLES
    maxWorkersArg,   \* the maxWorkers argument given to NewBatchProcessor
    bp,              \* the BatchProcessor: [maxWorkers, rateLimiterCap]
    estimator,       \* the Estimator: [aiProvider, storage, config]
    db,              \* what the store holds now
    storageChanges,  \* how many times the store was rewritten during the run
    request,         \* the BatchRequest: [Tasks]
    ctxCancelled,    \* the batch-wide context is done
    queuedAtCancel,  \* the task IDs that were in taskCh when it was cancelled
    mainPc,          \* where ProcessBatch is: idle, send, gather, done
    sent,            \* how many tasks ProcessBatch has put on taskCh
    taskCh,          \* buffered channel of task positions
    taskChClosed,
    resultCh,        \* buffered channel of BatchResults
    resultChClosed,
    rateLimiter,     \* number of tokens held in bp.rateLimiter
    workers,         \* the bag of the workers' states [pc, task, result, est]
    report,          \* the BatchReport under construction
    returned,        \* what ProcessBatch returned: NULL or [report, err]
    providerCalls,   \* per task position, the EstimateTask calls made for it
    storageReads,    \* the GetAllIssues calls made during the run
    fnArgs,          \* the arguments of a call of one function on its own, or NULL
    fnResult,        \* what that call returned, or NULL before it is made
    calls,           \* the ProcessBatch calls running on one shared BatchProcessor
    client           \* one OpenAIClient shared by goroutines, or NULL

vars == <<maxWorkersArg, bp, estimator, db, storageChanges, request, ctxCancelled,
          queuedAtCancel, mainPc, sent, taskCh, taskChClosed, resultCh,
          resultChClosed, rateLimiter, workers, report, returned, providerCalls,
          storageReads, fnArgs, fnResult, calls, client>>

DefaultMaxWorkers == 5

NewBatchProcessor_KeepsArg(maxWorkers) ==
    [maxWorkers |-> maxWorkers, rateLimiterCap |-> maxWorkers]

NewBatchProcessor(maxWorkers) ==
    LET n == IF maxWorkers <= 0 THEN DefaultMaxWorkers ELSE maxWorkers
    IN  [maxWorkers |-> n, rateLimiterCap |-> n]

NewEstimator(aiProvider, store, config) ==
    [aiProvider |-> aiProvider, storage |-> store,
     config |-> IF config = NULL THEN DefaultEstimationConfig ELSE config]

N == Len(request.Tasks)

\* The workers are anonymous goroutines running the same code: the pool is
\* the bag (multiset) of their local states.
Pool(k, workerState) == IF k <= 0 THEN EmptyBag ELSE [x \in {workerState} |-> k]

WorkerStates == BagToSet(workers)

\* the pool after one worker in state w has moved to state v
Moved(w, v) == (workers (-) SetToBag({w})) (+) SetToBag({v})

\* the number of workers at one of the places pcs
WorkersAt(pcs) ==
    LET at == {w \in WorkerStates : w.pc \in pcs}
        RECURSIVE Sum(_)
        Sum(S) == IF S = {} THEN 0
                  ELSE LET x == CHOOSE y \in S : TRUE
                       IN  CopiesIn(x, workers) + Sum(S \ {x})
    IN  Sum(at)

IdleWorker == [pc |-> "unstarted", task |-> 0, result |-> NULL, est |-> NULL]

\* the provider of the Estimator: nil, a client without an API key, or a
\* configured client
Providers == {"nil", "unavailable", "available"}

IsAvailable(aiProvider) == aiProvider = "available"

Store == [db |-> "bolt"]

Unreadable == [readable |-> FALSE, issues |-> <<>>]

\* the state after NewEstimator and NewBatchProcessor, before ProcessBatch,
\* for the given choices of the constructors' arguments and of the request
InitWith(workerArgs, providers, stores, dbs, maxTasks) ==
    /\ maxWorkersArg \in workerArgs
    /\ bp = NewBatchProcessor(maxWorkersArg)
    /\ \E p \in providers, st \in stores : estimator = NewEstimator(p, st, NULL)
    /\ db \in dbs
    /\ storageChanges = 0
    /\ \E n \in 0..maxTasks : request = [Tasks |-> [i \in 1..n |-> BatchTaskAt(i)]]
    /\ ctxCancelled = FALSE
    /\ queuedAtCancel = {}
    /\ mainPc = "idle"
    /\ sent = 0
    /\ taskCh = <<>>
    /\ taskChClosed = FALSE
    /\ resultCh = <<>>
    /\ resultChClosed = FALSE
    /\ rateLimiter = 0
    /\ workers = Pool(bp.maxWorkers, IdleWorker)
    /\ report = NULL
    /\ returned = NULL
    /\ providerCalls = [i \in 1..N |-> 0]
    /\ storageReads = 0

\* the batch engine as the repository's tests set it up: any provider, no
\* store, any pool size including the default
\* no ProcessBatch call of the shared-processor model and no provider client
NoCalls == calls = <<>> /\ client = NULL

Init ==
    /\ InitWith(0..MaxWorkersArg, Providers, {NULL}, {Unreadable}, MaxTasks)
    /\ fnArgs = NULL
    /\ fnResult = NULL
    /\ NoCalls

\* the batch engine with a working provider, with or without a store, over
\* every state of the store
InitStore ==
    /\ InitWith(1..MaxWorkersArg, {"available"}, {NULL, Store}, DbStates, MaxEnvTasks)
    /\ fnArgs = NULL
    /\ fnResult = NULL
    /\ NoCalls

(***************************************************************************)
(* ProcessBatch, the goroutine that closes resultCh, and the environment.  *)
(***************************************************************************)
\* ProcessBatch up to the end of the loop that starts the workers
StartBatch ==
    /\ mainPc = "idle"
    /\ report' = [Results |-> <<>>, TotalTasks |-> N, SuccessfulTasks |-> 0,
                  FailedTasks |-> 0, Statistics |-> NULL, EndTime |-> NULL]
    /\ workers' = Pool(bp.maxWorkers, [IdleWorker EXCEPT !.pc = "recv"])
    /\ mainPc' = "send"
    /\ UNCHANGED <<calls, client, fnArgs, fnResult, maxWorkersArg, bp, estimator, db, storageChanges, request,
                   ctxCancelled, queuedAtCancel, sent, taskCh, taskChClosed, resultCh,
                   resultChClosed, rateLimiter, returned, providerCalls, storageReads>>

\* taskCh <- &request.Tasks[i]; the channel's capacity is len(request.Tasks)
MainSend ==
    /\ mainPc = "send"
    /\ sent < N
    /\ Len(taskCh) < N
    /\ taskCh' = Append(taskCh, sent + 1)
    /\ sent' = sent + 1
    /\ UNCHANGED <<calls, client, fnArgs, fnResult, maxWorkersArg, bp, estimator, db, storageChanges, request,
                   ctxCancelled, queuedAtCancel, mainPc, taskChClosed, resultCh,
                   resultChClosed, rateLimiter, workers, report, returned,
                   providerCalls, storageReads>>

\* close(taskCh), then the goroutine waiting on wg is started
MainClose ==
    /\ mainPc = "send"
    /\ sent = N
    /\ taskChClosed' = TRUE
    /\ mainPc' = "gather"
    /\ UNCHANGED <<calls, client, fnArgs, fnResult, maxWorkersArg, bp, estimator, db, storageChanges, request,
                   ctxCancelled, queuedAtCancel, sent, taskCh, resultCh,
                   resultChClosed, rateLimiter, workers, report, returned,
                   providerCalls, storageReads>>

\* wg.Wait() returned in the goroutine: every worker has run wg.Done()
WaitDone == \A w \in WorkerStates : w.pc = "exited"

CloseResults_NoWait ==
    /\ mainPc = "gather"
    /\ ~resultChClosed
    /\ resultChClosed' = TRUE
    /\ UNCHANGED <<calls, client, fnArgs, fnResult, maxWorkersArg, bp, estimator, db, storageChanges, request,
                   ctxCancelled, queuedAtCancel, mainPc, sent, taskCh, taskChClosed,
                   resultCh, rateLimiter, workers, report, returned, providerCalls,
                   storageReads>>

\* go func() { wg.Wait(); close(resultCh) }()
CloseResults ==
    /\ mainPc = "gather"
    /\ ~resultChClosed
    /\ WaitDone
    /\ resultChClosed' = TRUE
    /\ UNCHANGED <<calls, client, fnArgs, fnResult, maxWorkersArg, bp, estimator, db, storageChanges, request,
                   ctxCancelled, queuedAtCancel, mainPc, sent, taskCh, taskChClosed,
                   resultCh, rateLimiter, workers, report, returned, providerCalls,
                   storageReads>>

MainGather_CountsAllSuccessful ==
    /\ mainPc = "gather"
    /\ resultCh # <<>>
    /\ resultCh' = Tail(resultCh)
    /\ report' = [report EXCEPT !.Results = Append(@, Head(resultCh)),
                                !.SuccessfulTasks = @ + 1]
    /\ UNCHANGED <<calls, client, fnArgs, fnResult, maxWorkersArg, bp, estimator, db, storageChanges, request,
                   ctxCancelled, queuedAtCancel, mainPc, sent, taskCh, taskChClosed,
                   resultChClosed, rateLimiter, workers, returned, providerCalls,
                   storageReads>>

\* one iteration of: for result := range resultCh
MainGather ==
    /\ mainPc = "gather"
    /\ resultCh # <<>>
    /\ resultCh' = Tail(resultCh)
    /\ LET result == Head(resultCh)
       IN  report' = IF result.Error # NULL
                     THEN [report EXCEPT !.Results = Append(@, result),
                                         !.FailedTasks = @ + 1]
                     ELSE [report EXCEPT !.Results = Append(@, result),
                                         !.SuccessfulTasks = @ + 1]
    /\ UNCHANGED <<calls, client, fnArgs, fnResult, maxWorkersArg, bp, estimator, db, storageChanges, request,
                   ctxCancelled, queuedAtCancel, mainPc, sent, taskCh, taskChClosed,
                   resultChClosed, rateLimiter, workers, returned, providerCalls,
                   storageReads>>

\* the range loop ends on the closed, drained channel; the report is
\* finalized and returned with a nil error
MainFinalize ==
    /\ mainPc = "gather"
    /\ resultCh = <<>>
    /\ resultChClosed
    /\ report' = [report EXCEPT !.EndTime = [time |-> "now"],
                                !.Statistics = calculateStatistics(report.Results)]
    /\ returned' = [report |-> report', err |-> NULL]
    /\ mainPc' = "done"
    /\ UNCHANGED <<calls, client, fnArgs, fnResult, maxWorkersArg, bp, estimator, db, storageChanges, request,
                   ctxCancelled, queuedAtCancel, sent, taskCh, taskChClosed, resultCh,
                   resultChClosed, rateLimiter, workers, providerCalls, storageReads>>

\* the caller cancels the context given to ProcessBatch
Cancel ==
    /\ mainPc \in {"send", "gather"}
    /\ ~ctxCancelled
    /\ ctxCancelled' = TRUE
    /\ queuedAtCancel' = Range(taskCh)
    /\ UNCHANGED <<calls, client, fnArgs, fnResult, maxWorkersArg, bp, estimator, db, storageChanges, request,
                   mainPc, sent, taskCh, taskChClosed, resultCh, resultChClosed,
                   rateLimiter, workers, report, returned, providerCalls, storageReads>>

\* another process (a sync) rewrites the store while the batch runs
StorageChange ==
    /\ mainPc \in {"send", "gather"}
    /\ storageChanges < MaxStorageChanges
    /\ \E d \in DbStates \ {db} : db' = d
    /\ storageChanges' = storageChanges + 1
    /\ UNCHANGED <<calls, client, fnArgs, fnResult, maxWorkersArg, bp, estimator, request, ctxCancelled,
                   queuedAtCancel, mainPc, sent, taskCh, taskChClosed, resultCh,
                   resultChClosed, rateLimiter, workers, report, returned,
                   providerCalls, storageReads>>


(***************************************************************************)
(* Estimator.Estimate, split at its one blocking call (the provider's      *)
(* EstimateTask), and BatchProcessor.worker.                               *)
(***************************************************************************)
\* the Task the worker builds from a BatchTask
ToTask(batchTask) ==
    [Title |-> batchTask.Title,
     Description |-> batchTask.Description,
     Labels |-> batchTask.Labels,
     Context |-> [k \in DOMAIN batchTask.Context |-> StrVal(batchTask.Context[k])]]

ProviderReady_NilCheckOnly(aiProvider) == aiProvider # "nil"

\* the negation of: e.aiProvider == nil || !e.aiProvider.IsAvailable()
ProviderReady(aiProvider) == aiProvider # "nil" /\ IsAvailable(aiProvider)

\* Estimate up to the provider call, given what loadHistoricalTasks returned:
\* [err, loadErr, result]; err # NULL when Estimate returns before the call
AfterLoad(task, e, loaded) ==
    LET historical == IF loaded.err # NULL THEN <<>> ELSE loaded.historical
        found == FindSimilarTasksAdaptive(task, historical, e.config)
    IN  [err |-> IF ProviderReady(e.aiProvider) THEN NULL
                 ELSE [error |-> "AI provider not available"],
         loadErr |-> loaded.err,
         result |-> [Task |-> task,
                     Estimation |-> NULL,
                     SimilarTasks |-> selectEnhancedDataset(found.matches, historical,
                                                            e.config),
                     Method |-> "",
                     DataSource |-> "",
                     DatasetStats |-> calculateDatasetStatistics(historical),
                     SimilarityContext |-> found.context]]

EstimatePrepare_FailsOnLoadError(task, e, database) ==
    LET loaded == loadHistoricalTasks(e.storage, database)
        after == AfterLoad(task, e, loaded)
    IN  IF loaded.err # NULL THEN [after EXCEPT !.err = loaded.err] ELSE after

EstimatePrepare(task, e, database) ==
    AfterLoad(task, e, loadHistoricalTasks(e.storage, database))

\* the tail of Estimate once EstimateTask returned (response, err):
\* what Estimate returns, [result, err]
EstimateFinish(prepared, response, err) ==
    IF err # NULL
    THEN [result |-> NULL, err |-> [error |-> "AI estimation failed", cause |-> err]]
    ELSE [result |-> [prepared EXCEPT !.Estimation = response, !.Method = "ai",
                                      !.DataSource = "openai"],
          err |-> NULL]

\* the worker's: if err != nil { result.Error = err } else { result.Result = estimation }
WithOutcome(result, returnedByEstimate) ==
    IF returnedByEstimate.err # NULL
    THEN [result EXCEPT !.Error = returnedByEstimate.err]
    ELSE [result EXCEPT !.Result = returnedByEstimate.result]

WorkerUnchanged ==
    UNCHANGED <<calls, client, fnArgs, fnResult, maxWorkersArg, bp, estimator, db, storageChanges, request,
                ctxCancelled, queuedAtCancel, mainPc, sent, taskChClosed,
                resultChClosed, report, returned>>

\* one iteration of: for batchTask := range taskCh; the loop, and with it
\* the worker, ends on the closed, drained channel (defer wg.Done())
WorkerReceive(w) ==
    /\ w.pc = "recv"
    /\ \/ /\ taskCh # <<>>
          /\ workers' = Moved(w, [w EXCEPT !.pc = "acquire", !.task = Head(taskCh)])
          /\ taskCh' = Tail(taskCh)
       \/ /\ taskCh = <<>>
          /\ taskChClosed
          /\ workers' = Moved(w, [w EXCEPT !.pc = "exited"])
          /\ UNCHANGED taskCh
    /\ UNCHANGED <<resultCh, rateLimiter, providerCalls, storageReads>>
    /\ WorkerUnchanged

\* bp.rateLimiter <- struct{}{}, then the BatchResult is allocated
WorkerAcquire(w) ==
    /\ w.pc = "acquire"
    /\ rateLimiter < bp.rateLimiterCap
    /\ rateLimiter' = rateLimiter + 1
    /\ workers' = Moved(w, [w EXCEPT
           !.pc = "estimate",
           !.result = [Task |-> request.Tasks[w.task], Result |-> NULL,
                       Error |-> NULL, ProcessedAt |-> [time |-> "now"]]])
    /\ UNCHANGED <<taskCh, resultCh, providerCalls, storageReads>>
    /\ WorkerUnchanged

\* Estimate from its entry to the call of EstimateTask, or to its return
\* when the provider is not available
EstimateBegin(w) ==
    /\ w.pc = "estimate"
    /\ \E prepared \in {EstimatePrepare(ToTask(request.Tasks[w.task]), estimator, db)} :
           /\ storageReads' = IF estimator.storage # NULL THEN storageReads + 1
                              ELSE storageReads
           /\ IF prepared.err # NULL
              THEN /\ workers' = Moved(w, [w EXCEPT
                          !.pc = "send",
                          !.result = WithOutcome(@, [result |-> NULL,
                                                     err |-> prepared.err])])
                   /\ UNCHANGED providerCalls
              ELSE /\ workers' = Moved(w, [w EXCEPT !.pc = "provider",
                                                    !.est = prepared])
                   /\ providerCalls' = [providerCalls EXCEPT ![w.task] = @ + 1]
    /\ UNCHANGED <<taskCh, resultCh, rateLimiter>>
    /\ WorkerUnchanged

\* what EstimateTask can return: a validated response, or an error
ProviderOutcomes ==
    [response : Responses, err : {NULL}]
        \cup {[response |-> NULL, err |-> [error |-> "OpenAI API request failed"]]}

ProviderReturn_Retries(w) ==
    /\ w.pc = "provider"
    /\ \E out \in ProviderOutcomes :
           IF out.err # NULL
           THEN /\ providerCalls' = [providerCalls EXCEPT ![w.task] = @ + 1]
                /\ UNCHANGED workers
           ELSE /\ workers' = Moved(w, [w EXCEPT
                        !.pc = "send",
                        !.est = NULL,
                        !.result = WithOutcome(@,
                            EstimateFinish(w.est.result, out.response, out.err))])
                /\ UNCHANGED providerCalls
    /\ UNCHANGED <<taskCh, resultCh, rateLimiter, storageReads>>
    /\ WorkerUnchanged

\* EstimateTask returns; Estimate returns; the worker stores the outcome
ProviderReturn(w) ==
    /\ w.pc = "provider"
    /\ \E out \in ProviderOutcomes :
           workers' = Moved(w, [w EXCEPT
               !.pc = "send",
               !.est = NULL,
               !.result = WithOutcome(@,
                   EstimateFinish(w.est.result, out.response, out.err))])
    /\ UNCHANGED <<taskCh, resultCh, rateLimiter, providerCalls, storageReads>>
    /\ WorkerUnchanged

WorkerSend_DropsFailed(w) ==
    /\ w.pc = "send"
    /\ resultCh' = IF w.result.Error # NULL THEN resultCh ELSE Append(resultCh, w.result)
    /\ workers' = Moved(w, [w EXCEPT !.pc = "release", !.result = NULL, !.task = 0])
    /\ UNCHANGED <<taskCh, rateLimiter, providerCalls, storageReads>>
    /\ WorkerUnchanged

\* resultCh <- result; the channel's capacity is len(request.Tasks)
WorkerSend(w) ==
    /\ w.pc = "send"
    /\ Len(resultCh) < N
    /\ resultCh' = Append(resultCh, w.result)
    /\ workers' = Moved(w, [w EXCEPT !.pc = "release", !.result = NULL, !.task = 0])
    /\ UNCHANGED <<taskCh, rateLimiter, providerCalls, storageReads>>
    /\ WorkerUnchanged

\* <-bp.rateLimiter, and back to the head of the loop
WorkerRelease(w) ==
    /\ w.pc = "release"
    /\ rateLimiter > 0
    /\ rateLimiter' = rateLimiter - 1
    /\ workers' = Moved(w, [w EXCEPT !.pc = "recv"])
    /\ UNCHANGED <<taskCh, resultCh, providerCalls, storageReads>>
    /\ WorkerUnchanged

\* the steps of the batch engine
Next ==
    \/ StartBatch
    \/ MainSend
    \/ MainClose
    \/ CloseResults
    \/ MainGather
    \/ MainFinalize
    \/ \E w \in WorkerStates : WorkerReceive(w)
    \/ \E w \in WorkerStates : WorkerAcquire(w)
    \/ \E w \in WorkerStates : EstimateBegin(w)
    \/ \E w \in WorkerStates : ProviderReturn(w)
    \/ \E w \in WorkerStates : WorkerSend(w)
    \/ \E w \in WorkerStates : WorkerRelease(w)

Spec == Init /\ [][Next]_vars

\* the batch engine over a store that nothing rewrites during the run
SpecStore == InitStore /\ [][Next]_vars

\* the steps of the batch engine and of its environment: the caller may
\* cancel the context, another process may rewrite the store
NextEnv ==
    \/ Next
    \/ Cancel
    \/ StorageChange

SpecEnv == InitStore /\ [][NextEnv]_vars

(***************************************************************************)
(* Properties.                                                             *)
(***************************************************************************)
\* the BatchResults that exist: held by a worker, on resultCh, in the report
HeldResults == {w.result : w \in {x \in WorkerStates : x.result # NULL}}
Gathered == IF report = NULL THEN <<>> ELSE report.Results
AllResults == HeldResults \cup Range(resultCh) \cup Range(Gathered)

\* the number of copies of the workers whose state satisfies holding task i
HeldBy(i) == LET RECURSIVE Sum(_)
                 Sum(S) == IF S = {} THEN 0
                           ELSE LET x == CHOOSE y \in S : TRUE
                                IN  CopiesIn(x, workers) + Sum(S \ {x})
             IN  Sum({w \in WorkerStates : w.task = i})

\* in how many places task i is: not yet sent, on taskCh, with a worker, on
\* resultCh, in the report
Occurrences(i) ==
    (IF i > sent THEN 1 ELSE 0)
    + Count(taskCh, i)
    + HeldBy(i)
    + Cardinality({k \in 1..Len(resultCh) : resultCh[k].Task.ID = i})
    + Cardinality({k \in 1..Len(Gathered) : Gathered[k].Task.ID = i})

Failed(results) == {k \in 1..Len(results) : results[k].Error # NULL}
Succeeded(results) == {k \in 1..Len(results) : results[k].Error = NULL}

\* C1: a batch of N tasks yields exactly N results for any pool size: every
\* task is at exactly one place at any time (waiting to be sent, on the
\* work queue, with one worker, on the result channel or in the report),
\* the work queue only ever holds the latest tasks sent and not yet taken
\* (a task taken never re-enters it), every result references its task and
\* holds an estimate or an error but not both and not neither, and the
\* returned report holds N results.
C1_ExactlyOneResultPerTask ==
    /\ \A i \in 1..N : Occurrences(i) = 1
    /\ taskCh = [j \in 1..Len(taskCh) |-> sent - Len(taskCh) + j]
    /\ \A r \in Range(resultCh) \cup Range(Gathered) :
           /\ r.Task = request.Tasks[r.Task.ID]
           /\ (r.Result = NULL) # (r.Error = NULL)
    /\ mainPc = "done" =>
           /\ Len(returned.report.Results) = N
           /\ \A i \in 1..N : \E k \in 1..N : returned.report.Results[k].Task.ID = i

\* a pool larger than the batch has returned a report holding both an
\* estimate and an error
C1_Witness ==
    /\ mainPc = "done"
    /\ N = MaxTasks
    /\ bp.maxWorkers > N
    /\ Failed(returned.report.Results) # {}
    /\ Succeeded(returned.report.Results) # {}

\* C2: whatever subset of the tasks fails, ProcessBatch returns a report
\* and a nil error; TotalTasks = N, FailedTasks = the number of results
\* carrying an error, SuccessfulTasks = N - FailedTasks, every task has its
\* result in the report (a failed one with its error), and with an
\* available provider every task was sent to it.  The counters agree with
\* the results gathered so far at every moment of the run.
C2_FailuresAreIsolated ==
    /\ report # NULL =>
           /\ report.TotalTasks = N
           /\ report.FailedTasks = Cardinality(Failed(report.Results))
           /\ report.SuccessfulTasks = Cardinality(Succeeded(report.Results))
    /\ mainPc = "done" =>
           /\ returned.err = NULL
           /\ returned.report = report
           /\ report.SuccessfulTasks = N - report.FailedTasks
           /\ \A i \in 1..N : \E k \in 1..Len(report.Results) :
                  report.Results[k].Task.ID = i
           /\ estimator.aiProvider = "available" => \A i \in 1..N : providerCalls[i] >= 1

\* three tasks, the second failed, the others estimated: 3 / 2 / 1
C2_Witness ==
    /\ mainPc = "done"
    /\ N = 3
    /\ \A k \in 1..3 : (report.Results[k].Error # NULL) <=> (report.Results[k].Task.ID = 2)
    /\ report.TotalTasks = 3
    /\ report.SuccessfulTasks = 2
    /\ report.FailedTasks = 1

\* C3: the statistics of a report are those of its successful results
\* alone: computing them from the result list with every failed result
\* removed gives the same BatchStatistics, in whatever order the results
\* arrived.
C3_StatisticsIgnoreFailures ==
    mainPc = "done" =>
        report.Statistics =
            calculateStatistics(SelectSeq(report.Results, LAMBDA r : r.Error = NULL))

\* a report whose first result is a failure, followed by two estimates that
\* arrived out of task order
C3_Witness ==
    /\ mainPc = "done"
    /\ N = 3
    /\ report.Results[1].Error # NULL
    /\ report.Results[2].Error = NULL
    /\ report.Results[3].Error = NULL
    /\ report.Results[2].Task.ID > report.Results[3].Task.ID
    /\ report.Statistics.TotalEstimatedHours # RInt(0)

\* the Estimate invocations in flight, and the tasks taken from the queue
\* whose result is not yet on the result channel
InFlight == WorkersAt({"estimate", "provider"})
Dispatched == sent - Len(taskCh) - Len(resultCh) - Len(Gathered)

\* C6: with pool size W = bp.maxWorkers, at most W Estimate invocations are
\* in flight and each holds a rate-limiter token, at most W tasks are out
\* of the queue without a result (one per worker), the pool has W workers,
\* and W is the argument of NewBatchProcessor, or 5 when that is <= 0.
C6_AtMostWInFlight ==
    /\ InFlight <= bp.maxWorkers
    /\ InFlight <= rateLimiter
    /\ rateLimiter <= bp.rateLimiterCap
    /\ Dispatched <= bp.maxWorkers
    /\ BagCardinality(workers) = bp.maxWorkers
    /\ maxWorkersArg <= 0 => bp.maxWorkers = 5
    /\ maxWorkersArg > 0 => bp.maxWorkers = maxWorkersArg

\* both workers of a pool of two are inside Estimate while a task waits
C6_Witness ==
    /\ bp.maxWorkers = 2
    /\ InFlight = 2
    /\ taskCh # <<>>

\* C7: the statistics exist (and EndTime is set) only once every worker has
\* exited, both channels are drained and all N results are in the report.
C7_StatisticsAfterDrain ==
    (report # NULL /\ (report.Statistics # NULL \/ report.EndTime # NULL)) =>
        /\ WaitDone
        /\ sent = N
        /\ taskCh = <<>>
        /\ resultCh = <<>>
        /\ Len(report.Results) = N
        /\ Len(Counted(report.Results)) = N - report.FailedTasks

\* a single worker has drained a batch of several tasks and the statistics
\* are computed
C7_Witness ==
    /\ mainPc = "done"
    /\ bp.maxWorkers = 1
    /\ N = MaxTasks
    /\ report.Statistics # NULL

\* C8: with an available provider, EstimateTask is called exactly once for
\* every task whose Estimate has reached it, whether it succeeds or fails:
\* no task is ever called for twice, every result that exists had its one
\* call, and a finished batch of N tasks has made exactly N calls.
C8_OneProviderCallPerTask ==
    estimator.aiProvider = "available" =>
        /\ \A i \in 1..N : providerCalls[i] <= 1
        /\ \A r \in AllResults :
               (r.Result # NULL \/ r.Error # NULL) => providerCalls[r.Task.ID] = 1
        /\ mainPc = "done" => SumSeq(providerCalls) = N

\* a finished batch in which a provider call failed
C8_Witness ==
    /\ mainPc = "done"
    /\ estimator.aiProvider = "available"
    /\ N >= 2
    /\ Failed(report.Results) # {}
    /\ Succeeded(report.Results) # {}

\* C9: with a nil provider, or one that is not available, EstimateTask is
\* never called, every Estimate returns an error and no result, and the
\* batch still produces a failed item for each of its N tasks.
C9_NoProviderNoCall ==
    estimator.aiProvider \in {"nil", "unavailable"} =>
        /\ \A i \in 1..N : providerCalls[i] = 0
        /\ \A w \in WorkerStates : w.pc # "provider"
        /\ \A r \in Range(resultCh) \cup Range(Gathered) :
               r.Error # NULL /\ r.Result = NULL
        /\ mainPc = "done" =>
               /\ Len(report.Results) = N
               /\ report.FailedTasks = N
               /\ report.SuccessfulTasks = 0

\* a batch of several tasks has finished on a provider that is configured
\* but not available
C9_Witness ==
    /\ mainPc = "done"
    /\ estimator.aiProvider = "unavailable"
    /\ N >= 2
    /\ report.FailedTasks = N

\* C4: once the batch-wide context is cancelled, no task that was still
\* waiting on the work queue at that moment is sent to the provider, and
\* none of them ends with an estimate.
C4_CancelStopsQueuedTasks ==
    \A i \in queuedAtCancel :
        /\ providerCalls[i] = 0
        /\ \A r \in AllResults : r.Task.ID = i => r.Result = NULL

\* C5: a batch run reads the store exactly once, and every estimate of the
\* run carries the dataset statistics, similar tasks and similarity context
\* of that one snapshot.
C5_OneSnapshotPerBatch ==
    /\ storageReads <= 1
    /\ \A r1, r2 \in {r \in AllResults : r.Result # NULL} :
           /\ r1.Result.DatasetStats = r2.Result.DatasetStats
           /\ r1.Result.SimilarityContext.TotalTasksScanned
                  = r2.Result.SimilarityContext.TotalTasksScanned

\* what an EstimationResult built on an empty corpus holds
OnEmptyCorpus(result) ==
    /\ result.DatasetStats = NULL
    /\ result.SimilarTasks = <<>>
    /\ result.SimilarityContext.TotalTasksScanned = 0
    /\ result.SimilarityContext.MatchesFound = 0
    /\ result.SimilarityContext.HighestSimilarity = RInt(0)

\* C10: when the store is not configured or reading it fails, Estimate goes
\* on with an empty corpus: it reaches the provider, calls it once, and
\* what it returns is the provider's estimate (or the provider's failure,
\* never the load error) with nil dataset statistics, no similar tasks and
\* a similarity context of 0 tasks scanned, 0 matches, highest similarity 0.
C10_LoadFailureMeansEmptyCorpus ==
    /\ \A w \in WorkerStates :
           (w.pc = "provider" /\ w.est.loadErr # NULL) =>
               /\ w.est.err = NULL
               /\ OnEmptyCorpus(w.est.result)
               /\ providerCalls[w.task] = 1
    /\ (estimator.storage = NULL \/ ~db.readable) =>
           \A r \in AllResults :
               /\ (r.Result # NULL \/ r.Error # NULL) => providerCalls[r.Task.ID] = 1
               /\ r.Result # NULL =>
                      /\ OnEmptyCorpus(r.Result)
                      /\ r.Result.Estimation \in Responses
               /\ r.Error # NULL => r.Error.error = "AI estimation failed"

\* a batch has finished on a configured store whose read fails, with an
\* estimate among its results
C10_Witness ==
    /\ mainPc = "done"
    /\ estimator.storage # NULL
    /\ ~db.readable
    /\ N >= 2
    /\ Succeeded(report.Results) # {}


(***************************************************************************)
(* Functions checked on their own: the arguments are drawn in the initial  *)
(* state, one step makes the call.  No batch runs meanwhile.               *)
(***************************************************************************)
\* the batch engine constructed and never started
InitIdle == InitWith({1}, {"available"}, {NULL}, {Unreadable}, 0) /\ NoCalls

BatchIdle ==
    UNCHANGED <<calls, client, maxWorkersArg, bp, estimator, db, storageChanges, request,
                ctxCancelled, queuedAtCancel, mainPc, sent, taskCh, taskChClosed,
                resultCh, resultChClosed, rateLimiter, workers, report, returned,
                providerCalls, storageReads>>

(***************************************************************************)
(* ParseEstimationJSON after json.Unmarshal: validateEstimationResponse.   *)
(***************************************************************************)
validSizes == {<<"X", "S">>, <<"S">>, <<"M">>, <<"L">>, <<"X", "L">>}

\* nil, or the error of the first check that fails
validateEstimationResponse(resp) ==
    IF RLt(resp.EstimatedHours, RInt(0))
    THEN [error |-> "estimated_hours must be non-negative"]
    ELSE IF RLt(resp.StoryPoints, RInt(0))
    THEN [error |-> "story_points must be non-negative"]
    ELSE IF RLt(resp.ConfidenceScore, RInt(0)) \/ RGt(resp.ConfidenceScore, RInt(1))
    THEN [error |-> "confidence_score must be between 0.0 and 1.0"]
    ELSE IF resp.EstimatedSize # <<>> /\ resp.EstimatedSize \notin validSizes
    THEN [error |-> "estimated_size must be one of: XS, S, M, L, XL"]
    ELSE IF resp.Reasoning = ""
    THEN [error |-> "reasoning is required"]
    ELSE NULL

\* ParseEstimationJSON from the decoded response on: [response, err]
ParseEstimationJSON(response) ==
    LET err == validateEstimationResponse(response)
    IN  IF err # NULL
        THEN [response |-> NULL,
              err |-> [error |-> "invalid estimation response", cause |-> err]]
        ELSE [response |-> response, err |-> NULL]

\* decoded provider responses; a field missing from the JSON is its zero
\* value (0, the empty string)
DecodedResponses ==
    [EstimatedHours : {RInt(-1), RInt(0), Rat(1, 2), RInt(8)},
     EstimatedSize : validSizes \cup {<<>>, <<"X", "X", "L">>, <<"H", "U", "G", "E">>},
     StoryPoints : {RInt(-1), RInt(0), RInt(5)},
     ConfidenceScore : {Rat(-1, 10), RInt(0), Rat(3, 4), RInt(1), Rat(3, 2)},
     Reasoning : {"", "Test"}]

InitParse ==
    /\ InitIdle
    /\ fnArgs \in [fn : {"ParseEstimationJSON"}, response : DecodedResponses]
    /\ fnResult = NULL

ParseResponse ==
    /\ fnArgs # NULL
    /\ fnArgs.fn = "ParseEstimationJSON"
    /\ fnResult = NULL
    /\ fnResult' = ParseEstimationJSON(fnArgs.response)
    /\ UNCHANGED fnArgs
    /\ BatchIdle

SpecParse == InitParse /\ [][ParseResponse]_vars

\* C11: a decoded response is accepted only when its reasoning is not
\* empty, its confidence score is in [0,1] and its estimated hours are
\* positive; a rejected one returns an error and no response, an accepted
\* one is returned as it was decoded.
C11_RejectsInvalidResponse ==
    fnResult # NULL =>
        /\ (fnResult.err = NULL) # (fnResult.response = NULL)
        /\ fnResult.err = NULL =>
               /\ fnResult.response = fnArgs.response
               /\ fnArgs.response.Reasoning # ""
               /\ RGeq(fnArgs.response.ConfidenceScore, RInt(0))
               /\ RLeq(fnArgs.response.ConfidenceScore, RInt(1))
               /\ RGt(fnArgs.response.EstimatedHours, RInt(0))

\* C12: a decoded response is accepted only when its estimated_size is one
\* of XS, S, M, L, XL; one with a missing or empty size is rejected.
C12_RejectsUnknownSize ==
    (fnResult # NULL /\ fnResult.err = NULL) =>
        fnArgs.response.EstimatedSize \in validSizes

(***************************************************************************)
(* The median of the batch statistics.                                     *)
(***************************************************************************)
\* the median of a list of hours: the middle value of the sorted list, the
\* mean of the two middle values when the count is even, 0 for no value
MedianOf(values) ==
    LET sorted == SortHours(values)
        n == Len(values)
    IN  IF n = 0 THEN RInt(0)
        ELSE IF n % 2 = 1 THEN sorted[(n + 1) \div 2]
        ELSE RDiv(RAdd(sorted[n \div 2], sorted[n \div 2 + 1]), RInt(2))

\* the estimated hours of the successful results of a report
SuccessfulHours(results) ==
    LET counted == Counted(results)
    IN  [i \in 1..Len(counted) |-> counted[i].Result.Estimation.EstimatedHours]

\* C13: the MedianHours of a finished batch is the median of the estimated
\* hours of its successful tasks.
C13_MedianIsTheMedian ==
    mainPc = "done" =>
        report.Statistics.MedianHours = MedianOf(SuccessfulHours(report.Results))

(***************************************************************************)
(* CalculateSimilarity on one task and one historical entry.               *)
(***************************************************************************)
SimTitles ==
    { <<>>,
      <<"!", "!">>,
      <<"G", "o">>,
      <<"A", "d", "d", " ", "l", "o", "g", "i", "n">>,
      <<"F", "i", "x", " ", "l", "o", "g", "i", "n", " ", "b", "u", "g">> }

SimTexts == { <<>>, <<"?", "!">>, <<"l", "o", "g", "i", "n", " ", "c", "r", "a", "s", "h">> }

SimLabels ==
    { <<>>,
      << <<"f", "e", "a", "t">> >>,
      << <<"B", "u", "g">>, <<"f", "e", "a", "t">> >>,
      << <<"f", "e", "a", "t">>, <<"u", "i">>, <<"b", "u", "g">> >> }

\* context maps of a task and custom-field maps of an issue
SimFields ==
    { NoFields,
      [k \in {"priority"} |-> StrVal(<<"h", "i", "g", "h">>)],
      [k \in {"priority", "Hours"} |->
          IF k = "Hours" THEN NumVal(6) ELSE StrVal(<<"H", "i", "g", "h">>)],
      [k \in {"Size"} |-> StrVal(<<"M">>)] }

SimTasks ==
    [Title : SimTitles, Description : SimTexts, Labels : SimLabels,
     Context : SimFields \ {[k \in {"Size"} |-> StrVal(<<"M">>)]}]

\* historical entries: a nil entry, one without an issue, and one built on
\* each issue
SimHistoricals ==
    {NULL,
     [ptr |-> 1, Issue |-> NULL, ActualHours |-> RInt(0), StoryPoints |-> RInt(0),
      EstimatedSize |-> <<>>]}
    \cup
    {MakeHistorical(<<[Title |-> t, Body |-> b,
                       Labels |-> [i \in 1..Len(l) |-> [Name |-> l[i]]],
                       State |-> "closed", CustomFields |-> f]>>, 1) :
         t \in SimTitles, b \in SimTexts, l \in SimLabels, f \in SimFields}

\* a closed issue with the custom fields its hours and size give (0: no
\* hours field, <<>>: no size field; story points are always present)
PoolIssue(title, labels, hours, size) ==
    [Title |-> title,
     Body |-> <<>>,
     Labels |-> [i \in 1..Len(labels) |-> [Name |-> labels[i]]],
     State |-> "closed",
     CustomFields |->
         [k \in {"Story Points"} \cup (IF hours > 0 THEN {"Hours"} ELSE {})
                \cup (IF size # <<>> THEN {"Size"} ELSE {}) |->
             IF k = "Hours" THEN NumVal(hours)
             ELSE IF k = "Size" THEN StrVal(size) ELSE NumVal(3)]]

\* the end-to-end scenario: the task "Add dark mode toggle" and the corpus
\* entry "Implement theme switcher", both labelled frontend and ui
ScenarioTask ==
    [Title |-> <<"A", "d", "d", " ", "d", "a", "r", "k", " ", "m", "o", "d", "e", " ", "t", "o", "g", "g", "l", "e">>,
     Description |-> <<>>,
     Labels |-> <<<<"f", "r", "o", "n", "t", "e", "n", "d">>, <<"u", "i">>>>,
     Context |-> NoFields]

ScenarioHistorical ==
    MakeHistorical(
        <<PoolIssue(<<"I", "m", "p", "l", "e", "m", "e", "n", "t", " ", "t", "h", "e", "m", "e", " ", "s", "w", "i", "t", "c", "h", "e", "r">>,
                    <<<<"f", "r", "o", "n", "t", "e", "n", "d">>, <<"u", "i">>>>, 6, <<"M">>)>>, 1)

InitSimilarity ==
    /\ InitIdle
    /\ fnArgs \in [fn : {"CalculateSimilarity"}, task : SimTasks,
                   historical : SimHistoricals]
                  \cup {[fn |-> "CalculateSimilarity", task |-> ScenarioTask,
                         historical |-> ScenarioHistorical]}
    /\ fnResult = NULL

Score ==
    /\ fnArgs # NULL
    /\ fnArgs.fn = "CalculateSimilarity"
    /\ fnResult = NULL
    /\ fnResult' = [score |-> CalculateSimilarity(fnArgs.task, fnArgs.historical)]
    /\ UNCHANGED fnArgs
    /\ BatchIdle

SpecSimilarity == InitSimilarity /\ [][Score]_vars

Scored == fnArgs # NULL /\ fnArgs.fn = "CalculateSimilarity" /\ fnResult # NULL

\* C14: for every task and every historical entry, with any of the four
\* signals present or absent, the score lies in [0, 1].
C14_ScoreInUnitInterval ==
    Scored => RGeq(fnResult.score, RInt(0)) /\ RLeq(fnResult.score, RInt(1))

\* a score strictly between 0 and 1 computed from all four signals
C14_Witness ==
    /\ Scored
    /\ RGt(fnResult.score, RInt(0))
    /\ RLt(fnResult.score, RInt(1))
    /\ fnArgs.task.Description # <<>>
    /\ fnArgs.historical.Issue.Body # <<>>
    /\ DOMAIN fnArgs.task.Context # {}
    /\ DOMAIN fnArgs.historical.Issue.CustomFields # {}

\* the entry has an issue whose title, description and label set are the task's
SameTexts ==
    /\ fnArgs.historical # NULL
    /\ fnArgs.historical.Issue # NULL
    /\ fnArgs.task.Title = fnArgs.historical.Issue.Title
    /\ fnArgs.task.Description = fnArgs.historical.Issue.Body
    /\ Range(fnArgs.task.Labels) = Range(extractLabels(fnArgs.historical.Issue))

HasText(s) == \E i \in 1..Len(s) : IsLetter(s[i]) \/ IsNumber(s[i])

\* C15 as stated: a non-empty title and identical title, description and
\* labels give a score >= 0.95 whatever the two context maps hold.
C15_IdenticalScoresAtLeast95 ==
    (Scored /\ SameTexts /\ fnArgs.task.Title # <<>>) =>
        RGeq(fnResult.score, Rat(95, 100))

\* C15 amended: when the title holds a letter or a digit (and so does the
\* description unless it is empty) and title, description and labels are
\* identical, the score is at least 0.85 whatever the two context maps
\* hold, and exactly 1 when one of the maps is empty or the maps are equal.
C15_IdenticalScoresHigh ==
    (/\ Scored
     /\ SameTexts
     /\ HasText(fnArgs.task.Title)
     /\ fnArgs.task.Description = <<>> \/ HasText(fnArgs.task.Description)) =>
        /\ RGeq(fnResult.score, Rat(85, 100))
        /\ (\/ DOMAIN fnArgs.task.Context = {}
            \/ DOMAIN fnArgs.historical.Issue.CustomFields = {}
            \/ fnArgs.task.Context = fnArgs.historical.Issue.CustomFields) =>
               fnResult.score = RInt(1)

\* identical title, description and labels, context maps that share no
\* equal value: the score is below 0.95
C15_Witness ==
    /\ Scored
    /\ SameTexts
    /\ HasText(fnArgs.task.Title)
    /\ HasText(fnArgs.task.Description)
    /\ fnArgs.task.Labels # <<>>
    /\ DOMAIN fnArgs.task.Context # {}
    /\ DOMAIN fnArgs.historical.Issue.CustomFields # {}
    /\ RLt(fnResult.score, Rat(95, 100))

(***************************************************************************)
(* FindSimilarTasksAdaptive on one task, one corpus and one configuration. *)
(***************************************************************************)
MaxCorpus == 4

\* the task searched for
SearchTask ==
    [Title |-> <<"F", "i", "x", " ", "l", "o", "g", " ", "b", "u", "g">>,
     Description |-> <<>>,
     Labels |-> << <<"b", "u", "g">> >>,
     Context |-> NoFields]

\* issues scoring 1, 4/9, 1/3, 2/9, 1/6 and 2/15 against SearchTask
IssuePool ==
    { PoolIssue(<<"F", "i", "x", " ", "l", "o", "g", " ", "b", "u", "g">>,
                << <<"b", "u", "g">> >>, 6, <<"M">>),
      PoolIssue(<<"l", "o", "g", " ", "b", "u", "g">>, <<>>, 3, <<"S">>),
      PoolIssue(<<"A", "d", "d", " ", "t", "a", "b">>, << <<"B", "u", "g">> >>,
                0, <<"M">>),
      PoolIssue(<<"l", "o", "g">>, <<>>, 10, <<>>),
      PoolIssue(<<"l", "o", "g", " ", "t", "a", "b">>, <<>>, 0, <<>>),
      PoolIssue(<<"b", "u", "g", " ", "t", "a", "b", " ", "a", "d", "d">>,
                <<>>, 2, <<"X", "S">>) }

\* the corpora: lists of at most MaxCorpus entries, each the HistoricalTask
\* of an issue of the pool; the same issue may be stored more than once
Corpora ==
    UNION {{[i \in 1..n |-> MakeHistorical(issues, i)] : issues \in [1..n -> IssuePool]} :
               n \in 0..MaxCorpus}

RetrieverConfigs ==
    {[DefaultEstimationConfig EXCEPT !.MaxSimilarTasks = k] :
         k \in {1, minDesiredMatches, DefaultMaxSimilarTasks}}

InitRetriever ==
    /\ InitIdle
    /\ fnArgs \in [fn : {"FindSimilarTasksAdaptive"}, task : {SearchTask},
                   historical : Corpora, config : RetrieverConfigs]
    /\ fnResult = NULL

Retrieve ==
    /\ fnArgs # NULL
    /\ fnArgs.fn = "FindSimilarTasksAdaptive"
    /\ fnResult = NULL
    /\ fnResult' = FindSimilarTasksAdaptive(fnArgs.task, fnArgs.historical, fnArgs.config)
    /\ UNCHANGED fnArgs
    /\ BatchIdle

SpecRetriever == InitRetriever /\ [][Retrieve]_vars

Retrieved == fnArgs # NULL /\ fnArgs.fn = "FindSimilarTasksAdaptive" /\ fnResult # NULL

\* the score of every corpus entry, computed on its own
RECURSIVE ScoresOf(_, _)
ScoresOf(task, historical) ==
    IF historical = <<>> THEN <<>>
    ELSE <<CalculateSimilarity(task, Head(historical))>> \o ScoresOf(task, Tail(historical))

CorpusScores == ScoresOf(fnArgs.task, fnArgs.historical)

\* the corpus entries (by position) scoring at least t
Qualifying(scores, t) == {i \in DOMAIN scores : RGeq(scores[i], t)}

\* the thresholds (by position) at which at least minDesiredMatches entries qualify
Reaching(scores) ==
    {k \in 1..Len(thresholds) :
        Cardinality(Qualifying(scores, thresholds[k])) >= minDesiredMatches}

\* t*: the first threshold that reaches the minimum, the loosest one if none does
FirstReached(scores) ==
    LET reaching == Reaching(scores)
    IN  IF reaching = {} THEN thresholds[Len(thresholds)]
        ELSE thresholds[CHOOSE k \in reaching : \A l \in reaching : k <= l]

\* the corpus entries (by position) among the returned matches
ReturnedEntries(matches) == {matches[i].Task.ptr : i \in 1..Len(matches)}

\* the matches are distinct entries of `among', each with its own score, and
\* they are `count' highest-scored ones of `among'
HighestScored(matches, scores, among, count) ==
    LET given == ReturnedEntries(matches)
    IN  /\ Len(matches) = count
        /\ Cardinality(given) = count
        /\ given \subseteq among
        /\ \A i \in 1..Len(matches) : matches[i].Similarity = scores[matches[i].Task.ptr]
        /\ \A i \in given : \A j \in among \ given : RGeq(scores[i], scores[j])

MinOf(a, b) == IF a < b THEN a ELSE b

NonIncreasing(matches) ==
    \A i, j \in 1..Len(matches) :
        i < j => RGeq(matches[i].Similarity, matches[j].Similarity)

\* C17: the returned matches are in non-increasing order of score, matches
\* with equal scores are in the order of the corpus, and an entry left out
\* by the cut never precedes, in the corpus, a returned entry of equal score.
C17_SortedTiesInCorpusOrder ==
    Retrieved =>
        LET matches == fnResult.matches
            scores == CorpusScores
            among == Qualifying(scores, FirstReached(scores))
        IN  /\ NonIncreasing(matches)
            /\ \A i, j \in 1..Len(matches) :
                   (i < j /\ matches[i].Similarity = matches[j].Similarity)
                       => matches[i].Task.ptr < matches[j].Task.ptr
            /\ \A i \in ReturnedEntries(matches) : \A j \in among \ ReturnedEntries(matches) :
                   scores[i] = scores[j] => i < j

\* C18: HighestSimilarity is the largest score over all corpus entries, and
\* 0 for the empty corpus, whatever was returned.
C18_HighestIsCorpusMaximum ==
    Retrieved =>
        LET scores == CorpusScores
            highest == fnResult.context.HighestSimilarity
        IN  IF scores = <<>> THEN highest = RInt(0)
            ELSE /\ \E i \in DOMAIN scores : scores[i] = highest
                 /\ \A i \in DOMAIN scores : RLeq(scores[i], highest)

\* the returned list is cut, and the best score belongs to an entry that
\* is neither the first nor the last of the corpus
C18_Witness ==
    /\ Retrieved
    /\ LET scores == CorpusScores
       IN  /\ Cardinality(Qualifying(scores, FirstReached(scores))) > Len(fnResult.matches)
           /\ scores[1] # fnResult.context.HighestSimilarity
           /\ scores[Len(scores)] # fnResult.context.HighestSimilarity
    /\ fnResult.context.HighestSimilarity = RInt(1)

\* nothing is returned from a corpus whose best score is positive
C18_EmptyListWitness ==
    /\ Retrieved
    /\ fnResult.matches = <<>>
    /\ Len(fnArgs.historical) > 2
    /\ RGt(fnResult.context.HighestSimilarity, RInt(0))

(***************************************************************************)
(* selectEnhancedDataset on the retriever's output, as Estimate calls it.  *)
(***************************************************************************)
EnhancerConfigs ==
    [MaxSimilarTasks : {1, DefaultMaxSimilarTasks},
     MinSimilarTasks : {2, DefaultMinSimilarTasks},
     MinSimilarityThreshold : {Rat(3, 10)},
     StratifiedSamplesPerSize : {1, DefaultStratifiedSamplesPerSize}]

InitEnhancer ==
    /\ InitIdle
    /\ fnArgs \in [fn : {"selectEnhancedDataset"}, task : {SearchTask},
                   historical : Corpora, config : EnhancerConfigs]
    /\ fnResult = NULL

\* similarTasks is what FindSimilarTasksAdaptive returned for the same
\* task, corpus and configuration
Enhance ==
    /\ fnArgs # NULL
    /\ fnArgs.fn = "selectEnhancedDataset"
    /\ fnResult = NULL
    /\ \E found \in {FindSimilarTasksAdaptive(fnArgs.task, fnArgs.historical, fnArgs.config)} :
           fnResult' = [similarTasks |-> found.matches,
                        enhanced |-> selectEnhancedDataset(found.matches, fnArgs.historical,
                                                           fnArgs.config)]
    /\ UNCHANGED fnArgs
    /\ BatchIdle

SpecEnhancer == InitEnhancer /\ [][Enhance]_vars

Enhanced == fnArgs # NULL /\ fnArgs.fn = "selectEnhancedDataset" /\ fnResult # NULL

\* the positions of the list whose entry carries the tag
Tagged(enhanced, tag) == {i \in 1..Len(enhanced) : enhanced[i].Matches = <<tag>>}

\* C19: the list returned by selectEnhancedDataset holds no corpus entry
\* twice; in particular no sample is an entry of the similar matches.
C19_NoEntryTwice ==
    Enhanced =>
        \A i, j \in 1..Len(fnResult.enhanced) :
            i # j => fnResult.enhanced[i].Task.ptr # fnResult.enhanced[j].Task.ptr

\* a similar match, a stratified sample and a percentile sample are all in
\* the list, and two percentiles fell on the same entry
C19_Witness ==
    /\ Enhanced
    /\ fnResult.similarTasks # <<>>
    /\ Tagged(fnResult.enhanced, "stratified_sample") # {}
    /\ \E k \in 1..Len(percentiles) : Tagged(fnResult.enhanced, PercentileTag(k)) # {}
    /\ Len(fnResult.enhanced) < Len(fnArgs.historical)
    /\ Len(fnResult.enhanced) < fnArgs.config.MinSimilarTasks

MaxOf(a, b) == IF a > b THEN a ELSE b

\* the corpus entries not among the similar matches kept by step 1 that
\* have a size category or positive hours
Available ==
    {i \in 1..Len(fnArgs.historical) :
        /\ i \notin ReturnedEntries(AddSimilar(fnResult.similarTasks, fnArgs.config))
        /\ \/ fnArgs.historical[i].EstimatedSize \in Range(sizes)
           \/ RGt(fnArgs.historical[i].ActualHours, RInt(0))}

\* C20: when the entries with a size category or positive hours that are
\* not yet selected are enough to fill the gap up to MinSimilarTasks (or up
\* to the whole corpus), the returned list has exactly
\* min(max(len(similarTasks), MinSimilarTasks), corpus size) entries.
C20_CountReachesMinimum ==
    Enhanced =>
        LET target == MinOf(MaxOf(Len(fnResult.similarTasks), fnArgs.config.MinSimilarTasks),
                            Len(fnArgs.historical))
        IN  Cardinality(Available) >= target - Len(fnResult.similarTasks)
                => Len(fnResult.enhanced) = target

PercentileTags == {PercentileTag(k) : k \in 1..Len(percentiles)}

\* the positions of the list that hold a percentile sample
PercentileSamples(enhanced) ==
    {i \in 1..Len(enhanced) : \E tag \in PercentileTags : enhanced[i].Matches = <<tag>>}

\* the corpus entries with positive hours that no similar match and no
\* stratified sample of the list selected
LeftWithHours(enhanced) ==
    {i \in 1..Len(fnArgs.historical) :
        /\ RGt(fnArgs.historical[i].ActualHours, RInt(0))
        /\ \A j \in (1..Len(enhanced)) \ PercentileSamples(enhanced) :
               enhanced[j].Task.ptr # i}

\* C21: each percentile reached while the total is below MinSimilarTasks
\* adds one entry as long as a not-yet-selected entry with positive hours is
\* left, so the percentile samples number min(5, MinSimilarTasks - total
\* before the step, entries with positive hours left before the step).
C21_EveryPercentileAddsOne ==
    Enhanced =>
        LET enhanced == fnResult.enhanced
            before == Len(enhanced) - Cardinality(PercentileSamples(enhanced))
            gap == MaxOf(fnArgs.config.MinSimilarTasks - before, 0)
        IN  Cardinality(PercentileSamples(enhanced))
                = MinOf(Len(percentiles), MinOf(gap, Cardinality(LeftWithHours(enhanced))))

InitStatistics ==
    /\ InitIdle
    /\ fnArgs \in [fn : {"calculateDatasetStatistics"}, historical : Corpora]
    /\ fnResult = NULL

Summarize ==
    /\ fnArgs # NULL
    /\ fnArgs.fn = "calculateDatasetStatistics"
    /\ fnResult = NULL
    /\ fnResult' = [stats |-> calculateDatasetStatistics(fnArgs.historical)]
    /\ UNCHANGED fnArgs
    /\ BatchIdle

SpecStatistics == InitStatistics /\ [][Summarize]_vars

Summarized == fnArgs # NULL /\ fnArgs.fn = "calculateDatasetStatistics" /\ fnResult # NULL

\* the positions of the corpus entries with positive hours
WithPositiveHours ==
    {i \in 1..Len(fnArgs.historical) : RGt(fnArgs.historical[i].ActualHours, RInt(0))}

\* the hours at 0-based rank r among the positive hours of the corpus: the
\* value with at most r hours below it and more than r hours not above it
HoursAtRank(r) ==
    LET hoursOf(i) == fnArgs.historical[i].ActualHours
    IN  CHOOSE v \in {hoursOf(i) : i \in WithPositiveHours} :
            /\ Cardinality({i \in WithPositiveHours : RLt(hoursOf(i), v)}) <= r
            /\ Cardinality({i \in WithPositiveHours : RLeq(hoursOf(i), v)}) > r

PercentilePoints == <<10, 25, 50, 75, 90>>

\* C23: calculateDatasetStatistics returns nil for the empty corpus; when
\* some entry has positive hours the five PercentileHours are non-decreasing,
\* the k-th is the element of rank floor((n-1)*p) of the n positive hours,
\* and MedianHours is their median.
C23_PercentilesAndMedian ==
    Summarized =>
        LET stats == fnResult.stats
            n == Cardinality(WithPositiveHours)
        IN  /\ (stats = NULL) = (fnArgs.historical = <<>>)
            /\ n > 0 =>
                 /\ Len(stats.PercentileHours) = Len(PercentilePoints)
                 /\ \A k \in 1..Len(PercentilePoints) :
                        stats.PercentileHours[k]
                            = HoursAtRank(((n - 1) * PercentilePoints[k]) \div 100)
                 /\ \A k \in 1..(Len(PercentilePoints) - 1) :
                        RLeq(stats.PercentileHours[k], stats.PercentileHours[k + 1])
                 /\ stats.MedianHours
                        = IF n % 2 = 1 THEN HoursAtRank(n \div 2)
                          ELSE RDiv(RAdd(HoursAtRank(n \div 2 - 1), HoursAtRank(n \div 2)),
                                    RInt(2))

\* a corpus given out of order with an even number of positive hours, whose
\* median is none of them and whose percentiles are not all equal
C23_Witness ==
    /\ Summarized
    /\ fnResult.stats # NULL
    /\ Cardinality(WithPositiveHours) = 4
    /\ RGt(fnArgs.historical[1].ActualHours, fnArgs.historical[Len(fnArgs.historical)].ActualHours)
    /\ \A i \in WithPositiveHours : fnArgs.historical[i].ActualHours # fnResult.stats.MedianHours
    /\ RLt(fnResult.stats.PercentileHours[1], fnResult.stats.PercentileHours[5])

\* C24: the scenario's task and corpus entry score between 0.5 and 0.85.
C24_ScenarioScoreInBand ==
    (Scored /\ fnArgs.task = ScenarioTask /\ fnArgs.historical = ScenarioHistorical)
        => /\ RGeq(fnResult.score, Rat(50, 100))
           /\ RLeq(fnResult.score, Rat(85, 100))

\* C25: every returned match scores at least ThresholdUsed, and when no
\* corpus entry scores at least 0.15 the context reports ThresholdUsed =
\* 0.15, ThresholdsTriedCount = 5 and MatchesFound = 0.
C25_ThresholdUsedIsTheFilter ==
    Retrieved =>
        LET context == fnResult.context
        IN  /\ \A i \in 1..Len(fnResult.matches) :
                   RGeq(fnResult.matches[i].Similarity, context.ThresholdUsed)
            /\ Qualifying(CorpusScores, Rat(15, 100)) = {}
                   => /\ context.ThresholdUsed = Rat(15, 100)
                      /\ context.ThresholdsTriedCount = 5
                      /\ context.MatchesFound = 0

(***************************************************************************)
(* extractJSONFromMarkdown (prompts.go) on one response text.              *)
(***************************************************************************)
\* the backtick, which a TLA+ string cannot hold, is written ~
Fence == <<"~", "~", "~">>

HasPrefix(s, prefix) == Len(s) >= Len(prefix) /\ SubSeq(s, 1, Len(prefix)) = prefix

\* strings.Split(s, "\n")
RECURSIVE SplitFrom(_, _, _)
SplitFrom(s, cur, acc) ==
    IF s = <<>> THEN Append(acc, cur)
    ELSE IF Head(s) = "\n" THEN SplitFrom(Tail(s), <<>>, Append(acc, cur))
         ELSE SplitFrom(Tail(s), Append(cur, Head(s)), acc)

Split(s) == SplitFrom(s, <<>>, <<>>)

\* strings.Join(lines, "\n")
RECURSIVE Join(_)
Join(lines) ==
    IF lines = <<>> THEN <<>>
    ELSE IF Len(lines) = 1 THEN lines[1]
         ELSE lines[1] \o <<"\n">> \o Join(Tail(lines))

\* strings.Index(s, c) as a 1-based position, 0 when c does not occur
Index(s, c) ==
    IF \E i \in 1..Len(s) : s[i] = c
    THEN CHOOSE i \in 1..Len(s) : s[i] = c /\ \A j \in 1..(i - 1) : s[j] # c
    ELSE 0

\* the lines up to the first one that is a closing fence
UpToFence(lines) ==
    LET fences == {i \in 1..Len(lines) : TrimSpace(lines[i]) = Fence}
    IN  IF fences = {} THEN lines
        ELSE SubSeq(lines, 1, (CHOOSE i \in fences : \A j \in fences : i <= j) - 1)

\* the brace-counting loop from position i with the given count: the
\* position of the brace that brings the count back to 0, 0 if none does
RECURSIVE ClosingBrace(_, _, _)
ClosingBrace(text, i, braceCount) ==
    IF i > Len(text) THEN 0
    ELSE IF text[i] = "{" THEN ClosingBrace(text, i + 1, braceCount + 1)
    ELSE IF text[i] = "}"
         THEN IF braceCount - 1 = 0 THEN i
              ELSE ClosingBrace(text, i + 1, braceCount - 1)
    ELSE ClosingBrace(text, i + 1, braceCount)

extractJSONFromMarkdown(response) ==
    LET trimmed == TrimSpace(response)
        lines == Split(trimmed)
        text == IF HasPrefix(trimmed, Fence) /\ Len(lines) > 2
                THEN Join(UpToFence(Tail(lines)))
                ELSE trimmed
        startIdx == Index(text, "{")
        endIdx == IF startIdx = 0 THEN 0 ELSE ClosingBrace(text, startIdx, 0)
    IN  TrimSpace(IF endIdx # 0 THEN SubSeq(text, startIdx, endIdx) ELSE text)

\* valid JSON objects: flat, nested, and with braces inside a string value
JSONObjects ==
    { <<"{", "}">>,
      <<"{", "\"", "k", "\"", ":", " ", "\"", "v", "\"", "}">>,
      <<"{", "\"", "k", "\"", ":", " ", "{", "\"", "j", "\"", ":", " ", "1", "}", "}">>,
      <<"{", "\"", "k", "\"", ":", " ", "\"", "}", "\"", "}">>,
      <<"{", "\"", "k", "\"", ":", " ", "\"", "{", "\"", "}">>,
      <<"{", "\"", "k", "\"", ":", " ", "\"", "a", "}", "b", "{", "c", "\"", "}">> }

\* what precedes the object: nothing, prose, an opening fence
Preambles ==
    { <<>>, <<"H", "e", "r", "e", ":", " ">>, <<" ", "\n">>,
      <<"~", "~", "~", "\n">>, <<"~", "~", "~", "j", "s", "o", "n", "\n">>,
      <<"S", "u", "r", "e", ".", "\n", "~", "~", "~", "j", "s", "o", "n", "\n">> }

\* what follows the object: nothing, prose, a closing fence
Postambles ==
    { <<>>, <<" ", "e", "n", "d">>, <<"\n">>, <<"\n", "~", "~", "~">>,
      <<"\n", "~", "~", "~", "\n", "D", "o", "n", "e", ".">> }

InitExtract ==
    /\ InitIdle
    /\ \E before \in Preambles, object \in JSONObjects, after \in Postambles :
           fnArgs = [fn |-> "extractJSONFromMarkdown", object |-> object,
                     text |-> before \o object \o after]
    /\ fnResult = NULL

Extract ==
    /\ fnArgs # NULL
    /\ fnArgs.fn = "extractJSONFromMarkdown"
    /\ fnResult = NULL
    /\ fnResult' = [text |-> extractJSONFromMarkdown(fnArgs.text)]
    /\ UNCHANGED fnArgs
    /\ BatchIdle

SpecExtract == InitExtract /\ [][Extract]_vars

Extracted == fnArgs # NULL /\ fnArgs.fn = "extractJSONFromMarkdown" /\ fnResult # NULL

\* C26: the text returned is exactly the first balanced top-level object of
\* the response, whatever its string values contain.
C26_ExtractsTheObject == Extracted => fnResult.text = fnArgs.object

(***************************************************************************)
(* Several ProcessBatch calls on one BatchProcessor (batch.go).  Each call *)
(* has its own taskCh, resultCh, WaitGroup and bp.maxWorkers workers; all  *)
(* share bp.rateLimiter.  A call's workers are counted by where they are:  *)
(* receive (range taskCh), acquire (bp.rateLimiter <-), estimate (inside   *)
(* Estimate), send (resultCh <-), release (<-bp.rateLimiter), exited.      *)
(***************************************************************************)
MaxCalls == 2
MaxCallTasks == 2

WorkerPlaces == {"receive", "acquire", "estimate", "send", "release", "exited"}

\* a call of ProcessBatch with n tasks, before it has started its workers
NewCall(n) ==
    [pc |-> "idle", n |-> n, sent |-> 0, taskCh |-> 0, taskChClosed |-> FALSE,
     resultCh |-> 0, resultChClosed |-> FALSE, gathered |-> 0,
     at |-> [place \in WorkerPlaces |-> 0]]

\* the numbers of tasks of at most MaxCalls calls, MaxCallTasks tasks in
\* all; the calls are interchangeable, so they are listed by decreasing size
CallSizes ==
    {tasksOf \in UNION {[1..c -> 0..MaxCallTasks] : c \in 1..MaxCalls} :
        /\ SumSeq(tasksOf) <= MaxCallTasks
        /\ \A b \in 1..(Len(tasksOf) - 1) : tasksOf[b] >= tasksOf[b + 1]}

InitShared ==
    /\ InitWith(1..MaxWorkersArg, {"available"}, {NULL}, {Unreadable}, 0)
    /\ fnArgs = NULL
    /\ fnResult = NULL
    /\ client = NULL
    /\ \E n \in CallSizes : calls = [b \in 1..Len(n) |-> NewCall(n[b])]

\* what the steps of a call leave alone
SharedUnchanged ==
    UNCHANGED <<client, fnArgs, fnResult, maxWorkersArg, bp, estimator, db,
                storageChanges, request, ctxCancelled, queuedAtCancel, mainPc, sent,
                taskCh, taskChClosed, resultCh, resultChClosed, workers, report,
                returned, providerCalls, storageReads>>

\* one worker of the call goes from one place to another
Step(call, from, to) ==
    [call EXCEPT !.at = [@ EXCEPT ![from] = @ - 1, ![to] = @ + 1]]

\* ProcessBatch makes its channels and starts bp.maxWorkers workers
SharedStart(b) ==
    /\ calls[b].pc = "idle"
    /\ calls' = [calls EXCEPT ![b] = [@ EXCEPT !.pc = "send",
                                                !.at = [@ EXCEPT !["receive"] = bp.maxWorkers]]]
    /\ UNCHANGED rateLimiter
    /\ SharedUnchanged

\* taskCh <- &request.Tasks[i]: the buffer holds all n tasks
SharedSend(b) ==
    /\ calls[b].pc = "send"
    /\ calls[b].sent < calls[b].n
    /\ calls[b].taskCh < calls[b].n
    /\ calls' = [calls EXCEPT ![b] = [@ EXCEPT !.sent = @ + 1, !.taskCh = @ + 1]]
    /\ UNCHANGED rateLimiter
    /\ SharedUnchanged

\* close(taskCh), then the goroutine that waits for the workers is started
SharedClose(b) ==
    /\ calls[b].pc = "send"
    /\ calls[b].sent = calls[b].n
    /\ calls' = [calls EXCEPT ![b] = [@ EXCEPT !.taskChClosed = TRUE, !.pc = "gather"]]
    /\ UNCHANGED rateLimiter
    /\ SharedUnchanged

\* for batchTask := range taskCh: a task is received
SharedWorkerReceive(b) ==
    /\ calls[b].at["receive"] > 0
    /\ calls[b].taskCh > 0
    /\ calls' = [calls EXCEPT ![b] = Step([@ EXCEPT !.taskCh = @ - 1], "receive", "acquire")]
    /\ UNCHANGED rateLimiter
    /\ SharedUnchanged

\* for batchTask := range taskCh: the channel is closed and empty
SharedWorkerExit(b) ==
    /\ calls[b].at["receive"] > 0
    /\ calls[b].taskCh = 0
    /\ calls[b].taskChClosed
    /\ calls' = [calls EXCEPT ![b] = Step(@, "receive", "exited")]
    /\ UNCHANGED rateLimiter
    /\ SharedUnchanged

\* bp.rateLimiter <- struct{}{}: blocks while the semaphore is full
SharedWorkerAcquire(b) ==
    /\ calls[b].at["acquire"] > 0
    /\ rateLimiter < bp.rateLimiterCap
    /\ rateLimiter' = rateLimiter + 1
    /\ calls' = [calls EXCEPT ![b] = Step(@, "acquire", "estimate")]
    /\ SharedUnchanged

\* bp.estimator.Estimate returns, with an estimation or an error
SharedEstimateReturn(b) ==
    /\ calls[b].at["estimate"] > 0
    /\ calls' = [calls EXCEPT ![b] = Step(@, "estimate", "send")]
    /\ UNCHANGED rateLimiter
    /\ SharedUnchanged

\* resultCh <- result: blocks while the buffer of n results is full
SharedWorkerSend(b) ==
    /\ calls[b].at["send"] > 0
    /\ calls[b].resultCh < calls[b].n
    /\ calls' = [calls EXCEPT ![b] = Step([@ EXCEPT !.resultCh = @ + 1], "send", "release")]
    /\ UNCHANGED rateLimiter
    /\ SharedUnchanged

\* a plausible slip: the worker goes back for a task without giving its slot back
SharedWorkerRelease_KeepsSlot(b) ==
    /\ calls[b].at["release"] > 0
    /\ UNCHANGED rateLimiter
    /\ calls' = [calls EXCEPT ![b] = Step(@, "release", "receive")]
    /\ SharedUnchanged

\* <-bp.rateLimiter
SharedWorkerRelease(b) ==
    /\ calls[b].at["release"] > 0
    /\ rateLimiter' = rateLimiter - 1
    /\ calls' = [calls EXCEPT ![b] = Step(@, "release", "receive")]
    /\ SharedUnchanged

\* wg.Wait() returns when every worker has exited; close(resultCh)
SharedCloseResults(b) ==
    /\ calls[b].pc = "gather"
    /\ ~calls[b].resultChClosed
    /\ calls[b].at["exited"] = bp.maxWorkers
    /\ calls' = [calls EXCEPT ![b] = [@ EXCEPT !.resultChClosed = TRUE]]
    /\ UNCHANGED rateLimiter
    /\ SharedUnchanged

\* for result := range resultCh: a result is received
SharedGather(b) ==
    /\ calls[b].pc = "gather"
    /\ calls[b].resultCh > 0
    /\ calls' = [calls EXCEPT ![b] = [@ EXCEPT !.resultCh = @ - 1, !.gathered = @ + 1]]
    /\ UNCHANGED rateLimiter
    /\ SharedUnchanged

\* for result := range resultCh ends; the report is returned
SharedReturn(b) ==
    /\ calls[b].pc = "gather"
    /\ calls[b].resultCh = 0
    /\ calls[b].resultChClosed
    /\ calls' = [calls EXCEPT ![b] = [@ EXCEPT !.pc = "done"]]
    /\ UNCHANGED rateLimiter
    /\ SharedUnchanged

CallIds == 1..MaxCalls

NextShared ==
    \/ \E b \in CallIds : b \in DOMAIN calls /\ SharedStart(b)
    \/ \E b \in CallIds : b \in DOMAIN calls /\ SharedSend(b)
    \/ \E b \in CallIds : b \in DOMAIN calls /\ SharedClose(b)
    \/ \E b \in CallIds : b \in DOMAIN calls /\ SharedWorkerReceive(b)
    \/ \E b \in CallIds : b \in DOMAIN calls /\ SharedWorkerExit(b)
    \/ \E b \in CallIds : b \in DOMAIN calls /\ SharedWorkerAcquire(b)
    \/ \E b \in CallIds : b \in DOMAIN calls /\ SharedEstimateReturn(b)
    \/ \E b \in CallIds : b \in DOMAIN calls /\ SharedWorkerSend(b)
    \/ \E b \in CallIds : b \in DOMAIN calls /\ SharedWorkerRelease(b)
    \/ \E b \in CallIds : b \in DOMAIN calls /\ SharedCloseResults(b)
    \/ \E b \in CallIds : b \in DOMAIN calls /\ SharedGather(b)
    \/ \E b \in CallIds : b \in DOMAIN calls /\ SharedReturn(b)

\* every goroutine that can take a step is eventually scheduled, and every
\* Estimate call returns
SpecShared == InitShared /\ [][NextShared]_vars /\ WF_vars(NextShared)

\* C27: every ProcessBatch call eventually returns its report, with one
\* result for each of its tasks.
C27_EveryCallReturns ==
    <>(\A b \in DOMAIN calls : calls[b].pc = "done" /\ calls[b].gathered = calls[b].n)

\* the semaphore is full, held by workers of one call, while a worker of
\* another call waits for it
C27_Witness ==
    /\ Len(calls) > 1
    /\ rateLimiter = bp.rateLimiterCap
    /\ \E b, c \in DOMAIN calls :
           /\ b # c
           /\ calls[b].at["estimate"] = bp.rateLimiterCap
           /\ calls[c].at["acquire"] > 0


(***************************************************************************)
(* One OpenAIClient shared by the batch workers: every worker's Estimate    *)
(* ends in EstimateTask on the same client, whose usage metrics are plain   *)
(* fields updated with ++ and += under no lock.  An unsynchronised x++ is a *)
(* load, an addition in the goroutine and a store, so each is two steps     *)
(* here and the goroutines interleave between them.                         *)
(***************************************************************************)
MaxClientWorkers == 2
MaxClientCalls == 3
TokenCounts == {1, 2}

ClientWorkers == 1..MaxClientWorkers

ClientPlaces ==
    {"idle", "makeRequest", "loadErrorCount", "storeErrorCount", "loadRequestCount",
     "storeRequestCount", "loadTotalTokens", "storeTotalTokens"}

\* NewOpenAIClient: zero metrics; no goroutine is inside EstimateTask.  The
\* fields completed and successfulTokens are not the program's: they count
\* the HTTP calls that have returned and the tokens of the successful ones.
NewOpenAIClient ==
    [metrics |-> [RequestCount |-> 0, ErrorCount |-> 0, TotalTokens |-> 0],
     goroutine |-> [w \in ClientWorkers |-> [pc |-> "idle", loaded |-> 0, tokens |-> 0]],
     started |-> 0, completed |-> 0, successfulTokens |-> 0]

InitClient ==
    /\ InitWith(2..MaxClientWorkers, {"available"}, {NULL}, {Unreadable}, 0)
    /\ calls = <<>>
    /\ fnArgs = NULL
    /\ fnResult = NULL
    /\ client = NewOpenAIClient

ClientUnchanged ==
    UNCHANGED <<calls, fnArgs, fnResult, maxWorkersArg, bp, estimator, db,
                storageChanges, request, ctxCancelled, queuedAtCancel, mainPc, sent,
                taskCh, taskChClosed, resultCh, resultChClosed, rateLimiter, workers,
                report, returned, providerCalls, storageReads>>

\* the goroutine w goes to another place of EstimateTask
Goes(w, pc, loaded) ==
    [client.goroutine EXCEPT ![w] = [@ EXCEPT !.pc = pc, !.loaded = loaded]]

\* bp.estimator.Estimate(ctx, task) in a worker reaches c.makeRequest
ClientEstimateTask(w) ==
    /\ w <= bp.maxWorkers
    /\ client.goroutine[w].pc = "idle"
    /\ client.started < MaxClientCalls
    /\ client' = [client EXCEPT !.goroutine = Goes(w, "makeRequest", 0),
                                !.started = @ + 1]
    /\ ClientUnchanged

\* makeRequest returns an error
ClientRequestFails(w) ==
    /\ client.goroutine[w].pc = "makeRequest"
    /\ client' = [client EXCEPT !.goroutine = Goes(w, "loadErrorCount", 0),
                                !.completed = @ + 1]
    /\ ClientUnchanged

\* makeRequest returns a response with its Usage.TotalTokens
ClientRequestSucceeds(w) ==
    /\ client.goroutine[w].pc = "makeRequest"
    /\ \E tokens \in TokenCounts :
           client' = [client EXCEPT
                          !.goroutine = [@ EXCEPT ![w] = [pc |-> "loadRequestCount",
                                                          loaded |-> 0,
                                                          tokens |-> tokens]],
                          !.completed = @ + 1,
                          !.successfulTokens = @ + tokens]
    /\ ClientUnchanged

\* c.metrics.ErrorCount++ : the load
ClientLoadErrorCount(w) ==
    /\ client.goroutine[w].pc = "loadErrorCount"
    /\ client' = [client EXCEPT
                      !.goroutine = Goes(w, "storeErrorCount", client.metrics.ErrorCount)]
    /\ ClientUnchanged

\* c.metrics.ErrorCount++ : the store, then return nil, err
ClientStoreErrorCount(w) ==
    /\ client.goroutine[w].pc = "storeErrorCount"
    /\ client' = [client EXCEPT
                      !.metrics.ErrorCount = client.goroutine[w].loaded + 1,
                      !.goroutine = Goes(w, "idle", 0)]
    /\ ClientUnchanged

\* c.metrics.RequestCount++ : the load
ClientLoadRequestCount(w) ==
    /\ client.goroutine[w].pc = "loadRequestCount"
    /\ client' = [client EXCEPT
                      !.goroutine = Goes(w, "storeRequestCount", client.metrics.RequestCount)]
    /\ ClientUnchanged

\* c.metrics.RequestCount++ : the store
ClientStoreRequestCount(w) ==
    /\ client.goroutine[w].pc = "storeRequestCount"
    /\ client' = [client EXCEPT
                      !.metrics.RequestCount = client.goroutine[w].loaded + 1,
                      !.goroutine = Goes(w, "loadTotalTokens", 0)]
    /\ ClientUnchanged

\* c.metrics.TotalTokens += oaiResp.Usage.TotalTokens : the load
ClientLoadTotalTokens(w) ==
    /\ client.goroutine[w].pc = "loadTotalTokens"
    /\ client' = [client EXCEPT
                      !.goroutine = Goes(w, "storeTotalTokens", client.metrics.TotalTokens)]
    /\ ClientUnchanged

\* c.metrics.TotalTokens += oaiResp.Usage.TotalTokens : the store; the rest
\* of EstimateTask touches no counter
ClientStoreTotalTokens(w) ==
    /\ client.goroutine[w].pc = "storeTotalTokens"
    /\ client' = [client EXCEPT
                      !.metrics.TotalTokens =
                          client.goroutine[w].loaded + client.goroutine[w].tokens,
                      !.goroutine = Goes(w, "idle", 0)]
    /\ ClientUnchanged

NextClient ==
    \/ \E w \in ClientWorkers : ClientEstimateTask(w)
    \/ \E w \in ClientWorkers : ClientRequestFails(w)
    \/ \E w \in ClientWorkers : ClientRequestSucceeds(w)
    \/ \E w \in ClientWorkers : ClientLoadErrorCount(w)
    \/ \E w \in ClientWorkers : ClientStoreErrorCount(w)
    \/ \E w \in ClientWorkers : ClientLoadRequestCount(w)
    \/ \E w \in ClientWorkers : ClientStoreRequestCount(w)
    \/ \E w \in ClientWorkers : ClientLoadTotalTokens(w)
    \/ \E w \in ClientWorkers : ClientStoreTotalTokens(w)

SpecClient == InitClient /\ [][NextClient]_vars

\* every goroutine has left EstimateTask: the metrics are settled
ClientQuiet ==
    /\ client # NULL
    /\ \A w \in ClientWorkers : client.goroutine[w].pc = "idle"

\* C28: when the k HTTP calls made by the workers sharing one client have
\* completed and their metric updates are done, RequestCount + ErrorCount is
\* k and TotalTokens is the sum of the tokens of the successful responses.
C28_NoUpdateLost ==
    ClientQuiet =>
        /\ client.metrics.RequestCount + client.metrics.ErrorCount = client.completed
        /\ client.metrics.TotalTokens = client.successfulTokens


(***************************************************************************)
(* The retriever on a corpus holding an entry with no source record, the    *)
(* &HistoricalTask{Issue: nil} of the similarity tests.                     *)
(***************************************************************************)
NoIssue(ptr) ==
    [ptr |-> ptr, Issue |-> NULL, ActualHours |-> RInt(0), StoryPoints |-> RInt(0),
     EstimatedSize |-> <<>>]

\* the given corpora with the entry at one position replaced by one without Issue
GapCorpora(corpora) ==
    UNION {{[historical EXCEPT ![i] = NoIssue(i)] : i \in DOMAIN historical} :
               historical \in corpora}

InitGaps ==
    /\ InitIdle
    /\ fnArgs \in [fn : {"FindSimilarTasksAdaptive on gaps"}, task : {SearchTask},
                   historical : GapCorpora(Corpora), config : {DefaultEstimationConfig}]
    /\ fnResult = NULL

RetrieveOverGaps ==
    /\ fnArgs # NULL
    /\ fnArgs.fn = "FindSimilarTasksAdaptive on gaps"
    /\ fnResult = NULL
    /\ fnResult' = FindSimilarTasksAdaptive(fnArgs.task, fnArgs.historical, fnArgs.config)
    /\ UNCHANGED fnArgs
    /\ BatchIdle

SpecGaps == InitGaps /\ [][RetrieveOverGaps]_vars

\* the corpus entries that have an Issue, in corpus order
RECURSIVE WithIssue(_)
WithIssue(historical) ==
    IF historical = <<>> THEN <<>>
    ELSE (IF Head(historical).Issue = NULL THEN <<>> ELSE <<Head(historical)>>)
             \o WithIssue(Tail(historical))

\* C29: on a corpus holding an entry with Issue = nil the retriever returns
\* without a fault, the entry scores 0.0 and is not among the matches, and the
\* matches and the context's counts are those of the corpus without it.
C29_NilIssueIsSkipped ==
    (fnArgs # NULL /\ fnArgs.fn = "FindSimilarTasksAdaptive on gaps" /\ fnResult # NULL) =>
        /\ fnResult # NilDereference
        /\ \A i \in DOMAIN fnArgs.historical :
               fnArgs.historical[i].Issue = NULL =>
                   /\ CalculateSimilarity(fnArgs.task, fnArgs.historical[i]) = RInt(0)
                   /\ \A m \in DOMAIN fnResult.matches :
                          fnResult.matches[m].Task.ptr # i
        /\ fnResult.matches =
               FindSimilarTasksAdaptive(fnArgs.task, WithIssue(fnArgs.historical),
                                        fnArgs.config).matches


(***************************************************************************)
(* The confidence tier of one result (EstimationResult.GetConfidenceLevel)  *)
(* beside the tiers of the batch report (calculateStatistics).              *)
(***************************************************************************)
GetConfidenceLevel(r) ==
    IF r.Estimation = NULL THEN "unknown"
    ELSE LET score == r.Estimation.ConfidenceScore
         IN  IF RGeq(score, Rat(8, 10)) THEN "high"
             ELSE IF RGeq(score, Rat(5, 10)) THEN "medium"
             ELSE "low"

\* the confidence scores tried: 0, 1/ConfidenceSteps, ..., 1
ConfidenceSteps == 10
MaxTierResults == 2

ConfidenceScores == {Rat(k, ConfidenceSteps) : k \in 0..ConfidenceSteps}

\* the BatchResult of a task estimated with confidence c
SuccessfulResult(c) ==
    [Task |-> [ID |-> "T", Title |-> <<"l", "o", "g">>, Labels |-> <<>>],
     Result |-> [Estimation |-> [EstimatedHours |-> RInt(1), EstimatedSize |-> <<"S">>,
                                 ConfidenceScore |-> c]],
     Error |-> NULL]

\* the batches of at most n successful results
TierBatches(n) ==
    UNION {{[i \in 1..k |-> SuccessfulResult(c[i])] : c \in [1..k -> ConfidenceScores]} :
               k \in 1..n}

InitTiers ==
    /\ InitIdle
    /\ fnArgs \in [fn : {"GetConfidenceLevel"}, results : TierBatches(MaxTierResults)]
    /\ fnResult = NULL

\* the report's statistics, and the level each result reports for itself
Classify ==
    /\ fnArgs # NULL
    /\ fnArgs.fn = "GetConfidenceLevel"
    /\ fnResult = NULL
    /\ fnResult' = [stats |-> calculateStatistics(fnArgs.results),
                    levels |-> [i \in 1..Len(fnArgs.results) |->
                                   GetConfidenceLevel(fnArgs.results[i].Result)]]
    /\ UNCHANGED fnArgs
    /\ BatchIdle

SpecTiers == InitTiers /\ [][Classify]_vars

\* the results of the batch that report the given level
Reporting(level) == {i \in DOMAIN fnResult.levels : fnResult.levels[i] = level}

\* C30: the report counts in each tier exactly the tasks whose own
\* GetConfidenceLevel is that tier, the tiers being high for c >= 0.70, medium
\* for 0.50 <= c < 0.70 and low below, and every successful task is counted in
\* one tier.
C30_SameTierInReport ==
    (fnArgs # NULL /\ fnArgs.fn = "GetConfidenceLevel" /\ fnResult # NULL) =>
        /\ fnResult.stats.HighConfidenceTasks = Cardinality(Reporting("high"))
        /\ fnResult.stats.MediumConfidenceTasks = Cardinality(Reporting("medium"))
        /\ fnResult.stats.LowConfidenceTasks = Cardinality(Reporting("low"))
        /\ \A i \in DOMAIN fnArgs.results :
               LET c == fnArgs.results[i].Result.Estimation.ConfidenceScore
               IN  fnResult.levels[i] =
                       IF RGeq(c, Rat(70, 100)) THEN "high"
                       ELSE IF RGeq(c, Rat(50, 100)) THEN "medium"
                       ELSE "low"
        /\ fnResult.stats.HighConfidenceTasks + fnResult.stats.MediumConfidenceTasks
               + fnResult.stats.LowConfidenceTasks = Len(fnArgs.results)

====
